---- MODULE Spec2Model ----
(***************************************************************************)
(* Model of the incident escalation pipeline of the AWS Cloud Ops agent:   *)
(* the deterministic threshold evaluation (MetricAnalysisAgent), the       *)
(* escalation gate and the cycle of IncidentOrchestrator.run_once and      *)
(* run_loop, with the CloudWatch tools and the Bedrock-backed stages.      *)
(*                                                                         *)
(* Python dicts are functions whose DOMAIN is the set of keys present;     *)
(* d.get(k, default) is Get(d, k, default).  Numbers are naturals; the     *)
(* mean of a datapoint list is an exact fraction [num, den] in lowest      *)
(* terms, and a comparison value >= bound is num >= bound * den.           *)
(***************************************************************************)
EXTENDS Integers, Sequences, FiniteSets, TLC

\* ------------------------------------------------------------------ bounds

\* Largest statistic value a datapoint carries, and largest threshold bound.
MaxVal == 2

\* Largest number of incidents generate_multiple_incidents is asked for.
MaxIncidents == 2

\* The longest enumerated bundle handed to summarize_logs (longer ones are
\* listed one by one), and the largest small max_samples.
MaxEvents == 3
MaxSamples == 2

\* Largest cycle limit given to run_loop, and the number of cycles an
\* unlimited loop is followed for.
MaxCycles == 2

\* Longest list of log events the log source answers.
MaxLogs == 2

\* Most logging calls made on one IncidentLogger before it is finalized.
MaxCalls == 2

\* ------------------------------------------------------------ dict helpers

\* The empty dict {}.
EmptyDict == [k \in {} |-> 0]

\* d.get(k, default)
Get(d, k, default) == IF k \in DOMAIN d THEN d[k] ELSE default

\* "k in d"
Has(d, k) == k \in DOMAIN d

\* sum of a sequence of naturals
RECURSIVE SumSeq(_)
SumSeq(s) == IF s = <<>> THEN 0 ELSE Head(s) + SumSeq(Tail(s))

RECURSIVE Gcd(_, _)
Gcd(a, b) == IF b = 0 THEN a ELSE Gcd(b, a % b)

\* An exact fraction in lowest terms.
Frac(n, d) == LET g == Gcd(n, d) IN [num |-> n \div g, den |-> d \div g]

\* A whole number as a value.
Whole(n) == [num |-> n, den |-> 1]

\* value >= bound, for a value [num, den] and a natural bound
Geq(value, bound) == value.num >= bound * value.den

\* value < bound
Lt(value, bound) == value.num < bound * value.den

\* value > bound
Gt(value, bound) == value.num > bound * value.den

\* statistics.mean of a non-empty sequence of naturals
Mean(s) == Frac(SumSeq(s), Len(s))

\* ------------------------------------------------ IncidentLogger (the trace)

\* IncidentLogger(incident_id=id): a trace with the given id and no entries.
NewLogger(id) == [incident_id |-> id, entries |-> <<>>]

\* logger.add_entry(agent, stage, message, extra): one entry appended.
add_entry(logger, agent, stage) ==
    [logger EXCEPT !.entries = Append(@, [agent |-> agent, stage |-> stage])]

\* --------------------------------------------------- MetricAnalysisAgent

agent_name == "MetricAnalysisAgent"

\* The working state of one analyze call: the violations list being filled,
\* the local trace and the shared logger.
NewCtx(logger) == [violations |-> <<>>, local_trace |-> <<>>, logger |-> logger]

\* local_trace.append(text) followed by incident_logger.add_entry(stage=...)
Note(ctx, stage) ==
    [ctx EXCEPT !.local_trace = Append(@, stage),
                !.logger = add_entry(@, agent_name, stage)]

\* violations.append(v), local_trace.append(msg), add_entry(stage, extra=v)
Violate(ctx, source, metric_name, severity, value, threshold, dimension) ==
    LET v == [source |-> source, metric |-> metric_name, severity |-> severity,
              value |-> value, threshold |-> threshold, dimension |-> dimension]
    IN Note([ctx EXCEPT !.violations = Append(@, v)],
            IF severity = "critical" THEN "threshold_critical" ELSE "threshold_warning")

\* Variant: the warning branch fires whenever a warn bound is configured.
_check_sum_threshold_any_warn(source, metric_name, total, config, ctx) ==
    IF Has(config, "crit_sum") /\ Geq(total, config["crit_sum"])
    THEN Violate(ctx, source, metric_name, "critical", total, config["crit_sum"], "sum")
    ELSE IF Has(config, "warn_sum")
    THEN Violate(ctx, source, metric_name, "warning", total, config["warn_sum"], "sum")
    ELSE ctx

\* Variant: the bounds are exclusive (> in place of >=).
_check_sum_threshold_strict(source, metric_name, total, config, ctx) ==
    IF Has(config, "crit_sum") /\ Gt(total, config["crit_sum"])
    THEN Violate(ctx, source, metric_name, "critical", total, config["crit_sum"], "sum")
    ELSE IF Has(config, "warn_sum") /\ Gt(total, config["warn_sum"])
    THEN Violate(ctx, source, metric_name, "warning", total, config["warn_sum"], "sum")
    ELSE ctx

_check_sum_threshold(source, metric_name, total, config, ctx) ==
    IF Has(config, "crit_sum") /\ Geq(total, config["crit_sum"])
    THEN Violate(ctx, source, metric_name, "critical", total, config["crit_sum"], "sum")
    ELSE IF Has(config, "warn_sum") /\ Geq(total, config["warn_sum"])
    THEN Violate(ctx, source, metric_name, "warning", total, config["warn_sum"], "sum")
    ELSE ctx

\* Variant: the warn bound is tested before the crit bound.
_check_avg_threshold_warn_first(source, metric_name, avg, config, ctx) ==
    IF Has(config, "warn_avg") /\ Geq(avg, config["warn_avg"])
    THEN Violate(ctx, source, metric_name, "warning", avg, config["warn_avg"], "average")
    ELSE IF Has(config, "crit_avg") /\ Geq(avg, config["crit_avg"])
    THEN Violate(ctx, source, metric_name, "critical", avg, config["crit_avg"], "average")
    ELSE ctx

_check_avg_threshold(source, metric_name, avg, config, ctx) ==
    IF Has(config, "crit_avg") /\ Geq(avg, config["crit_avg"])
    THEN Violate(ctx, source, metric_name, "critical", avg, config["crit_avg"], "average")
    ELSE IF Has(config, "warn_avg") /\ Geq(avg, config["warn_avg"])
    THEN Violate(ctx, source, metric_name, "warning", avg, config["warn_avg"], "average")
    ELSE ctx

\* Variant: the severity of the first violation decides.
_aggregate_severity_first(violations) ==
    IF violations = <<>> THEN "ok" ELSE violations[1].severity

_aggregate_severity(violations) ==
    IF \E i \in DOMAIN violations : violations[i].severity = "critical" THEN "critical"
    ELSE IF \E i \in DOMAIN violations : violations[i].severity = "warning" THEN "warning"
    ELSE "ok"

\* sum(dp.get("Sum", 0) for dp in datapoints)
RECURSIVE SumOfSums(_)
SumOfSums(datapoints) ==
    IF datapoints = <<>> THEN 0
    ELSE Get(Head(datapoints), "Sum", 0) + SumOfSums(Tail(datapoints))

\* [dp.get(key) for dp in datapoints if key in dp]
RECURSIVE Averages(_, _)
Averages(datapoints, key) ==
    IF datapoints = <<>> THEN <<>>
    ELSE IF Has(Head(datapoints), key)
         THEN <<Head(datapoints)[key]>> \o Averages(Tail(datapoints), key)
         ELSE Averages(Tail(datapoints), key)

\* One sum-style lambda metric (errors, throttles): lines 92-113 and 115-136.
LambdaSumMetric(thresholds, lambda_metrics, name, stage, ctx) ==
    LET dps == Get(lambda_metrics, name, <<>>)
    IN IF dps = <<>> THEN ctx
       ELSE _check_sum_threshold("lambda_metrics", name, Whole(SumOfSums(dps)),
                                 Get(thresholds, name, EmptyDict),
                                 Note(ctx, stage))

\* The duration metric: lines 138-161.
LambdaDuration(thresholds, lambda_metrics, ctx) ==
    LET dps == Get(lambda_metrics, "duration", <<>>)
        averages == Averages(dps, "Average")
    IN IF dps = <<>> \/ averages = <<>> THEN ctx
       ELSE _check_avg_threshold("lambda_metrics", "duration_ms", Mean(averages),
                                 Get(thresholds, "duration_ms", EmptyDict),
                                 Note(ctx, "lambda_duration"))

\* ctx carries the local trace and the logger through; the returned list out
\* is the violations of ctx, which starts empty.
_analyze_lambda_metrics(all_thresholds, lambda_metrics, ctx) ==
    LET thresholds == Get(all_thresholds, "lambda_metrics", EmptyDict)
        c1 == LambdaSumMetric(thresholds, lambda_metrics, "errors", "lambda_errors", ctx)
        c2 == LambdaSumMetric(thresholds, lambda_metrics, "throttles",
                              "lambda_throttles", c1)
    IN LambdaDuration(thresholds, lambda_metrics, c2)

\* The body of the loop of _analyze_custom_metrics for one metric.
CustomMetric(thresholds, custom_metrics, metric_name, ctx) ==
    LET datapoints == custom_metrics[metric_name]
        cfg == Get(thresholds, metric_name, EmptyDict)
        averages == Averages(datapoints, "average")
    IN IF datapoints = <<>> THEN ctx
       ELSE IF cfg = EmptyDict THEN Note(ctx, "skip_metric")
       ELSE IF averages = <<>> THEN Note(ctx, "skip_metric_no_avg")
       ELSE _check_avg_threshold("custom_metrics", metric_name, Mean(averages), cfg,
                                 Note(ctx, "custom_metric_avg"))

\* The order in which a dict of custom metrics is iterated: the order the
\* metric source inserts them in.
CustomOrder == <<"CPUUtilization", "RetryCount">>

RECURSIVE CustomLoop(_, _, _, _)
CustomLoop(thresholds, custom_metrics, names, ctx) ==
    IF names = <<>> THEN ctx
    ELSE CustomLoop(thresholds, custom_metrics, Tail(names),
                    IF Has(custom_metrics, Head(names))
                    THEN CustomMetric(thresholds, custom_metrics, Head(names), ctx)
                    ELSE ctx)

_analyze_custom_metrics(all_thresholds, custom_metrics, ctx) ==
    CustomLoop(Get(all_thresholds, "custom_metrics", EmptyDict), custom_metrics,
               CustomOrder, ctx)

\* MetricAnalysisAgent.analyze(metrics, incident_logger): the result dict and
\* the logger as the call leaves it.
analyze(all_thresholds, metrics, incident_logger) ==
    LET lambda_metrics == Get(metrics, "lambda_metrics", EmptyDict)
        custom_metrics == Get(metrics, "custom_metrics", EmptyDict)
        c0 == Note(NewCtx(incident_logger), "start")
        c1 == _analyze_lambda_metrics(all_thresholds, lambda_metrics, c0)
        c2 == _analyze_custom_metrics(all_thresholds, custom_metrics, c1)
        overall_severity == _aggregate_severity(c2.violations)
        c3 == Note(c2, "end")
    IN [result |-> [incident_id |-> incident_logger.incident_id,
                    overall_severity |-> overall_severity,
                    violations |-> c2.violations,
                    thinking_log |-> c3.local_trace],
        logger |-> c3.logger]

\* ------------------------------------------------------ optional values

\* Python's None where a value may be missing, and a value that is present.
Null == <<>>
Some(v) == <<v>>
Val(o) == o[1]

\* d[k] = v on a dict
\* Variant: a key the dict already holds keeps its value.
Put_keep(d, k, v) == [x \in DOMAIN d \cup {k} |-> IF x \in DOMAIN d THEN d[x] ELSE v]

Put(d, k, v) == [x \in DOMAIN d \cup {k} |-> IF x = k THEN v ELSE d[x]]

\* A Python value tagged with its type, where the code's behaviour depends on it.
PyList(items) == [type |-> "list", items |-> items]
PyDict(items) == [type |-> "dict", items |-> items]

\* bool(x) of a list or a dict: empty containers are falsy
Truthy(x) == IF x.type = "list" THEN x.items # <<>> ELSE DOMAIN x.items # {}

\* ------------------------------------ IncidentLogger of incident_log.py

\* Python values handed to the logger, by what json.dumps makes of them: a
\* string, a number, a datetime, and a value the encoder cannot take (a set).
PyStr(t) == [kind |-> "str", text |-> t, num |-> 0]
PyInt(n) == [kind |-> "int", text |-> "", num |-> n]
PyDateTime(iso) == [kind |-> "datetime", text |-> iso, num |-> 0]
PySet == [kind |-> "set", text |-> "", num |-> 0]

\* The JSON value json.dumps(v, cls=DateTimeEncoder) writes: a datetime
\* becomes its isoformat string, and what DateTimeEncoder.default hands to
\* super().default raises TypeError (Null).
JsonOf(v) ==
    IF v.kind = "datetime" THEN Some(PyStr(v.text))
    ELSE IF v.kind = "set" THEN Null
    ELSE Some(v)

\* json.loads of a line of the trail file.
Loads(line) == line.json

\* datetime.utcnow().isoformat()
_timestamp == "utcnow"

\* IncidentLogger.__init__: the incident directory is made and the trail
\* file is created empty; the other files are not there yet.
NewIncidentDir(id) ==
    [incident_id |-> id, log |-> <<>>, raw_logs |-> Null, raw_metrics |-> Null,
     results |-> Null]

\* Variant: the trail file is opened with "w", so that a write replaces it.
_write_truncating(dir, entry) ==
    LET body == JsonOf(entry.body)
    IN IF body = Null THEN [dir |-> dir, raised |-> TRUE]
       ELSE [dir |-> [dir EXCEPT !.log =
                         <<[json |-> [type |-> entry.type, body |-> Val(body),
                                      timestamp |-> _timestamp,
                                      incident_id |-> dir.incident_id]]>>],
             raised |-> FALSE]

\* IncidentLogger._write(entry): timestamp and incident id are added and the
\* entry is appended to the trail file as one line; json.dumps runs before
\* anything is written.
_write(dir, entry) ==
    LET body == JsonOf(entry.body)
    IN IF body = Null THEN [dir |-> dir, raised |-> TRUE]
       ELSE [dir |-> [dir EXCEPT !.log =
                         Append(@, [json |-> [type |-> entry.type, body |-> Val(body),
                                              timestamp |-> _timestamp,
                                              incident_id |-> dir.incident_id]])],
             raised |-> FALSE]

\* json.dump(obj, f) into a file opened with "w": the file is complete, or
\* cut where the encoder raised.
DumpFile(value) ==
    IF JsonOf(value) = Null THEN Some([complete |-> FALSE, json |-> PyStr("")])
    ELSE Some([complete |-> TRUE, json |-> Val(JsonOf(value))])

\* len(x) if isinstance(x, list) else 0, and the same for dict; a raw value
\* is a container of `size` items that are all `item`.
CountIf(raw, container) == IF raw.container = container THEN raw.size ELSE 0

\* log_raw_logs(logs) and log_raw_metrics(metrics): the trail entry with the
\* count, then the dump of the raw value to its own file.
log_raw(dir, raw, type, container, file) ==
    LET w == _write(dir, [type |-> type, body |-> PyInt(CountIf(raw, container))])
    IN IF w.raised THEN w
       ELSE LET dumped == DumpFile(IF raw.size = 0 THEN PyStr("") ELSE raw.item)
            IN [dir |-> IF file = "raw_logs"
                        THEN [w.dir EXCEPT !.raw_logs = dumped]
                        ELSE [w.dir EXCEPT !.raw_metrics = dumped],
                raised |-> ~Val(dumped).complete]

log_raw_logs(dir, logs) == log_raw(dir, logs, "raw_logs", "list", "raw_logs")

log_raw_metrics(dir, metrics) ==
    log_raw(dir, metrics, "raw_metrics", "dict", "raw_metrics")

\* log_logs_analysis, log_metrics_analysis, log_rca: one trail entry holding
\* the value given.
log_logs_analysis(dir, analysis) ==
    _write(dir, [type |-> "logs_analysis", body |-> analysis])

log_metrics_analysis(dir, analysis) ==
    _write(dir, [type |-> "metrics_analysis", body |-> analysis])

log_rca(dir, rca_data) ==
    _write(dir, [type |-> "root_cause_analysis", body |-> rca_data])

\* The trail entry finalize_and_persist writes: the root cause stands for
\* the four summary fields read from the results.
SummaryEntry(rca_result) ==
    [type |-> "incident_summary", body |-> Get(rca_result, "root_cause", PyStr("Unknown"))]

\* finalize_and_persist(metrics_result, log_result, rca_result): .get on a
\* result that is None raises before anything is written; else the summary
\* entry is appended and results.json is written.
\* results.json as finalize_and_persist writes it: the dump, and the
\* severity field of the results.
ResultsFile(dumped, severity) ==
    Some([complete |-> Val(dumped).complete, json |-> Val(dumped).json,
          severity |-> severity])

\* Variant: the severity of results.json is the one the RCA result carries,
\* when it carries one.
finalize_and_persist_rca_severity(dir, metrics_result, log_result, rca_result) ==
    IF log_result = Null \/ rca_result = Null THEN [dir |-> dir, raised |-> TRUE]
    ELSE LET w == _write(dir, SummaryEntry(Val(rca_result)))
         IN IF w.raised THEN w
            ELSE LET summary == SummaryEntry(Val(rca_result))
                     dumped == DumpFile(summary.body)
                     severity == Get(Val(rca_result), "overall_severity",
                                     Get(metrics_result, "overall_severity", "unknown"))
                 IN [dir |-> [w.dir EXCEPT !.results = ResultsFile(dumped, severity)],
                     raised |-> ~Val(dumped).complete]

finalize_and_persist(dir, metrics_result, log_result, rca_result) ==
    IF log_result = Null \/ rca_result = Null THEN [dir |-> dir, raised |-> TRUE]
    ELSE LET w == _write(dir, SummaryEntry(Val(rca_result)))
         IN IF w.raised THEN w
            ELSE LET summary == SummaryEntry(Val(rca_result))
                     dumped == DumpFile(summary.body)
                     severity == Get(metrics_result, "overall_severity", "unknown")
                 IN [dir |-> [w.dir EXCEPT !.results = ResultsFile(dumped, severity)],
                     raised |-> ~Val(dumped).complete]

\* --------------------------------------------------------- CloudWatch tools

\* The metric names get_recent_metrics queries, in order.
ToolMetricNames == {"CPUUtilization", "MemoryUsageMB", "OrderLatencyMS",
                    "InventoryDBLatencyMS", "RetryCount", "DownstreamTimeouts",
                    "ErrorRate"}

\* The order in which get_recent_metrics queries them.
ToolMetricOrder == <<"CPUUtilization", "MemoryUsageMB", "OrderLatencyMS",
                     "InventoryDBLatencyMS", "RetryCount", "DownstreamTimeouts",
                     "ErrorRate">>

\* The first metric of the loop whose get_metric_statistics call raises.
FirstFailing(failing) ==
    ToolMetricOrder[CHOOSE i \in DOMAIN ToolMetricOrder :
                        /\ ToolMetricOrder[i] \in failing
                        /\ \A j \in 1..(i - 1) : ToolMetricOrder[j] \notin failing]

\* get_recent_metrics: datapoints is the Datapoints list CloudWatch answers
\* for a metric (the same for every metric here), failing the metrics whose
\* get_metric_statistics call raises.  One try block holds the whole loop:
\* the first exception ends it and str(e) is all that is returned.
get_recent_metrics(datapoints, failing) ==
    IF failing # {}
    THEN [status |-> "error", error |-> <<"exception text", FirstFailing(failing)>>]
    ELSE [status |-> "ok",
          metrics |-> [m \in ToolMetricNames |->
                         [i \in DOMAIN datapoints |->
                            [average |-> datapoints[i].Average,
                             max |-> datapoints[i].Maximum]]]]

\* get_recent_logs: events are the parsed log events, fails says whether
\* filter_log_events raised.  The result is a dict in both cases.
get_recent_logs(events, fails) ==
    IF fails THEN PyDict([status |-> "error", error |-> "exception text"])
    ELSE PyDict([status |-> "ok", log_group |-> "log group", count |-> Len(events),
                 logs |-> events])

\* --------------------------------------------------------- LogAnalysisAgent

MAX_PROMPT_CHARS == 3500

max_events == 10

\* len(head): the characters of the prompt before "Logs JSON:".
HeadChars == 275

\* len("Logs JSON:\n")
LabelChars == 11

NoLogsMsg == "No log entries found in the provided time window."

\* The keys _prepare_logs_for_prompt keeps.
KeptKeys == {"timestamp", "time", "level", "logStreamName", "message", "event",
             "service", "component", "scenario", "environment"}

\* A log event is a dict from its keys to the number of characters the JSON
\* text of the value takes.
\* The sanitized form of one event.
Sanitize(e) ==
    LET minimal == [k \in DOMAIN e \cap KeptKeys |-> e[k]]
    IN IF DOMAIN minimal # {} THEN minimal
       ELSE IF "raw" \in DOMAIN e THEN [k \in {"raw"} |-> e[k]]
       ELSE e

\* logs[-max_events:]
\* Variant: every event is kept.
LastEvents_all(items) == items

LastEvents(items) ==
    IF Len(items) <= max_events THEN items
    ELSE SubSeq(items, Len(items) - max_events + 1, Len(items))

RECURSIVE SumOver(_, _)
SumOver(f, keys) ==
    IF keys = {} THEN 0
    ELSE LET k == CHOOSE x \in keys : TRUE
         IN Len(k) + 3 + f[k] + SumOver(f, keys \ {k})

\* len(json.dumps(e, separators=(",", ":"))) of one event
EventChars(e) ==
    LET n == Cardinality(DOMAIN e)
    IN 2 + SumOver(e, DOMAIN e) + (IF n > 0 THEN n - 1 ELSE 0)

RECURSIVE SumEventChars(_)
SumEventChars(events) ==
    IF events = <<>> THEN 0
    ELSE EventChars(Head(events)) + SumEventChars(Tail(events))

\* len(json.dumps(safe_logs, separators=(",", ":")))
JsonChars(events) ==
    2 + SumEventChars(events) + (IF Len(events) > 0 THEN Len(events) - 1 ELSE 0)

Min(a, b) == IF a <= b THEN a ELSE b

log_agent_name == "LogAnalysisAgent"

\* The exceptions that leave a stage: x[a:b] on a dict or on a value that
\* cannot be sliced, and whatever invoke_model raises.
SliceError == "slice error"
InvokeError == "invoke_model error"

\* local_trace.append / add_entry pairs of the log stage
LogNote(st, stage) ==
    [st EXCEPT !.local_trace = Append(@, stage),
               !.logger = add_entry(@, log_agent_name, stage)]

\* LogAnalysisAgent.analyze up to the call of invoke_model (lines 49-116).
\* status: "returned" (early return), "raised" (an exception left the call) or
\* "calling" (the request is about to be sent).
LogBegin(logs, incident_logger) ==
    LET st0 == [local_trace |-> <<>>, logger |-> incident_logger]
    IN IF ~Truthy(logs)
       THEN LET st == LogNote(st0, "start")
            IN [status |-> "returned", logger |-> st.logger,
                local_trace |-> st.local_trace, request |-> Null,
                result |-> Some([incident_id |-> incident_logger.incident_id,
                                 summary |-> NoLogsMsg,
                                 thinking_log |-> st.local_trace])]
       ELSE LET st1 == LogNote(st0, "start")
            IN IF logs.type # "list"
               THEN \* logs[-max_events:] on a dict raises
                    [status |-> "raised", logger |-> st1.logger,
                     local_trace |-> st1.local_trace, request |-> Null,
                     result |-> Null, error |-> SliceError]
               ELSE LET subset == LastEvents(logs.items)
                        st2 == LogNote(st1, "trim_logs")
                        safe_logs == [i \in DOMAIN subset |-> Sanitize(subset[i])]
                        json_chars == JsonChars(safe_logs)
                        prompt_chars == HeadChars + LabelChars + json_chars
                        trim == prompt_chars > MAX_PROMPT_CHARS
                        sent_chars ==
                            IF trim
                            THEN HeadChars + LabelChars
                                 + Min(json_chars, MAX_PROMPT_CHARS - HeadChars - 50)
                            ELSE prompt_chars
                        st3 == IF trim THEN LogNote(st2, "prompt_trim") ELSE st2
                        st4 == LogNote(st3, "call_llm")
                    IN [status |-> "calling", logger |-> st4.logger,
                        local_trace |-> st4.local_trace,
                        request |-> Some([chars |-> sent_chars,
                                          events |-> Len(subset),
                                          trimmed |-> trim]),
                        result |-> Null]

\* What invoke_model does for the log stage: it raises, or the body it returns
\* holds this payload.  A payload is its list of results; a result holds its
\* "outputText" when the key is present.
LogOutcomes ==
    { [raises |-> TRUE, results |-> <<>>],
      [raises |-> FALSE, results |-> <<>>],
      [raises |-> FALSE, results |-> <<[outputText |-> ""]>>],
      [raises |-> FALSE, results |-> <<[outputText |-> "log summary text"]>>] }

\* payload.get("results", [])[0].get("outputText", "").strip() or str(payload);
\* an exception on the way gives str(payload) as well (lines 125-130).
LogSummary(outcome) ==
    IF outcome.results = <<>> THEN "str(payload)"
    ELSE LET text == Get(outcome.results[1], "outputText", "")
         IN IF text = "" THEN "str(payload)" ELSE text

\* LogAnalysisAgent.analyze from the call of invoke_model on (lines 118-144).
\* Variant: the end entry is written whether or not invoke_model returned.
LogEnd_end_anyway(begun, outcome) ==
    LET st == LogNote([local_trace |-> begun.local_trace,
                       logger |-> begun.logger], "end")
    IN IF outcome.raises
       THEN [status |-> "raised", logger |-> st.logger,
             local_trace |-> st.local_trace, result |-> Null,
             error |-> InvokeError]
       ELSE [status |-> "returned", logger |-> st.logger,
             local_trace |-> st.local_trace,
             result |-> Some([incident_id |-> begun.logger.incident_id,
                              summary |-> LogSummary(outcome),
                              thinking_log |-> st.local_trace])]

LogEnd(begun, outcome) ==
    IF outcome.raises
    THEN [status |-> "raised", logger |-> begun.logger,
          local_trace |-> begun.local_trace, result |-> Null,
          error |-> InvokeError]
    ELSE LET st == LogNote([local_trace |-> begun.local_trace,
                            logger |-> begun.logger], "end")
         IN [status |-> "returned", logger |-> st.logger,
             local_trace |-> st.local_trace,
             result |-> Some([incident_id |-> begun.logger.incident_id,
                              summary |-> LogSummary(outcome),
                              thinking_log |-> st.local_trace])]

\* ------------------------------------------------------------------ RCAAgent

rca_agent_name == "RCAAgent"

RcaNote(st, stage) ==
    [st EXCEPT !.local_trace = Append(@, stage),
               !.logger = add_entry(@, rca_agent_name, stage)]

\* RCAAgent.analyze up to the call of invoke_model (lines 48-78).  The prompt
\* is built from the metrics result and str(log_summary).
RcaBegin(metrics_result, log_summary, incident_logger) ==
    LET st0 == [local_trace |-> <<>>, logger |-> incident_logger]
        st1 == RcaNote(st0, "start")
        st2 == RcaNote(st1, "call_llm")
    IN [status |-> "calling", logger |-> st2.logger,
        local_trace |-> st2.local_trace,
        request |-> Some([metrics_severity |-> metrics_result.overall_severity,
                          log_summary_text |-> log_summary]),
        result |-> Null]

\* A response text of the model, by its shape: raw is the text as returned,
\* stripped the text without its leading and trailing whitespace; fenced
\* says whether it is wrapped in code-fence lines; body is "empty" (nothing
\* but whitespace), "plain" (no JSON), or "json" with the parsed value: a
\* dict (type "dict") or something else (its items are left out).
\* text.strip() of a response text.
Stripped(text) == text.stripped

\* The exception json.loads raises on a text that is no JSON.
ParseError == "JSONDecodeError"

\* Variant: json.loads is called outside the try block.
_try_parse_json_unguarded(text) ==
    IF Stripped(text) = "" THEN [raised |-> FALSE, value |-> Null]
    ELSE IF text.body # "json" THEN [raised |-> TRUE, value |-> Null]
         ELSE IF text.value.type = "dict" /\ Has(text.value.items, "incident_summary")
              THEN [raised |-> FALSE, value |-> Some(text.value.items)]
              ELSE [raised |-> FALSE, value |-> Null]

\* RCAAgent._try_parse_json: the value returned (None or the parsed dict);
\* raised says whether an exception leaves the call, which the try block
\* around json.loads prevents.
_try_parse_json(text) ==
    IF Stripped(text) = "" THEN [raised |-> FALSE, value |-> Null]
    ELSE \* the fence lines are dropped when the text starts with a fence
         IF text.body # "json"
         THEN [raised |-> FALSE, value |-> Null]   \* json.loads raises, caught
         ELSE IF text.value.type = "dict" /\ Has(text.value.items, "incident_summary")
              THEN [raised |-> FALSE, value |-> Some(text.value.items)]
              ELSE [raised |-> FALSE, value |-> Null]

\* The fallback wrapper (lines 103-110).
RcaFallback(text, metrics_result) ==
    [incident_summary |->
         IF Stripped(text) = "" THEN "RCA summary not available." ELSE Stripped(text),
     overall_severity |-> Get(metrics_result, "overall_severity", "unknown"),
     likely_root_causes |-> <<>>,
     impacted_components |-> <<>>,
     recommended_actions |-> <<>>,
     llm_reasoning |-> "Model returned unstructured text, used as plain summary."]

\* The text taken from the payload (lines 88-95): results[0]["outputText"]
\* when results is a non-empty list whose head is a dict, else "".
BlankText == [fenced |-> FALSE, body |-> "empty", raw |-> "", stripped |-> ""]

RcaText(outcome) ==
    IF outcome.results = <<>> THEN BlankText
    ELSE Get(outcome.results[1], "outputText", BlankText)

\* RCAAgent.analyze from the call of invoke_model on (lines 80-124).
\* rca.get("incident_summary", "")[:200] raises when the summary of a parsed
\* object is no string (JSON null, a number).
RcaEnd(begun, metrics_result, outcome) ==
    IF outcome.raises
    THEN [status |-> "raised", logger |-> begun.logger,
          local_trace |-> begun.local_trace, result |-> Null,
          error |-> InvokeError]
    ELSE LET text == RcaText(outcome)
             tried == _try_parse_json(text)
             parsed == tried.value
             rca == IF parsed # Null THEN Val(parsed)
                    ELSE RcaFallback(text, metrics_result)
         IN IF tried.raised
            THEN [status |-> "raised", logger |-> begun.logger,
                  local_trace |-> begun.local_trace, result |-> Null,
                  error |-> ParseError]
            ELSE IF rca.incident_summary = "null"
            THEN [status |-> "raised", logger |-> begun.logger,
                  local_trace |-> begun.local_trace, result |-> Null,
                  error |-> SliceError]
            ELSE LET st == RcaNote([local_trace |-> begun.local_trace,
                                    logger |-> begun.logger], "end")
                 IN [status |-> "returned", logger |-> st.logger,
                     local_trace |-> st.local_trace,
                     result |-> Some(Put(Put(rca, "incident_id",
                                             begun.logger.incident_id),
                                         "thinking_log", st.local_trace))]

\* Response texts of the model for the RCA stage.
JsonText(fenced, value) ==
    [fenced |-> fenced, body |-> "json", raw |-> "raw json text",
     stripped |-> "raw json text", value |-> value]

RcaObject(summary) ==
    PyDict([incident_summary |-> summary, overall_severity |-> "critical",
            likely_root_causes |-> <<"cause">>, impacted_components |-> <<"component">>,
            recommended_actions |-> <<"action">>, llm_reasoning |-> "reasoning"])

RcaTexts ==
    { BlankText,
      [fenced |-> FALSE, body |-> "empty", raw |-> "   ", stripped |-> ""],
      [fenced |-> TRUE, body |-> "empty", raw |-> "fence lines only",
       stripped |-> "fence lines only"],
      [fenced |-> FALSE, body |-> "plain", raw |-> "plain text", stripped |-> "plain text"],
      [fenced |-> FALSE, body |-> "plain", raw |-> "  plain text  ",
       stripped |-> "plain text"],
      JsonText(FALSE, RcaObject("summary text")),
      JsonText(TRUE, RcaObject("summary text")),
      JsonText(FALSE, RcaObject("null")),
      JsonText(FALSE, PyDict([incident_summary |-> "summary text",
                              incident_id |-> <<"model", 0>>,
                              thinking_log |-> <<"model step">>])),
      JsonText(FALSE, PyDict([root_cause |-> "cause"])),
      JsonText(FALSE, [type |-> "list", items |-> EmptyDict]) }

\* What invoke_model does for the RCA stage.
RcaOutcomes ==
    { [raises |-> TRUE, results |-> <<>>], [raises |-> FALSE, results |-> <<>>] }
    \cup { [raises |-> FALSE, results |-> <<[outputText |-> t]>>] : t \in RcaTexts }

\* ------------------------------------------------------ IncidentOrchestrator

\* Variant: a key missing from order ranks as ok whatever the default is.
OrderGet_missing_is_ok(key, default) ==
    IF key = "warning" THEN 1
    ELSE IF key = "critical" THEN 2
    ELSE 0

\* order.get(key, default) on order = {"ok": 0, "warning": 1, "critical": 2}
OrderGet(key, default) ==
    IF key = "ok" THEN 0
    ELSE IF key = "warning" THEN 1
    ELSE IF key = "critical" THEN 2
    ELSE default

\* Variant: the severity has to exceed the threshold.
_meets_threshold_above(threshold, severity) ==
    OrderGet(severity, 0) > OrderGet(threshold, 1)

_meets_threshold(threshold, severity) ==
    LET sev_val == OrderGet(severity, 0)
        threshold_val == OrderGet(threshold, 1)
    IN sev_val >= threshold_val

\* -------------------------------------------------------- DataPreprocessor

\* The number of ERROR events summarize_logs takes at most.
ErrorSampleCap == 10

\* The default of max_samples.
DefaultMaxSamples == 20

\* A log event of a bundle, by its message: JSON text of a dict with a level,
\* text that starts with a brace and that json.loads rejects, or other text.
\* event is the position of the event in its bundle.
JsonEvent(level, n) == [text |-> "json", level |-> level, event |-> n]
BrokenEvent(n) == [text |-> "broken json", level |-> "", event |-> n]
TextEvent(n) == [text |-> "text", level |-> "", event |-> n]

\* seq[:n] of Python: a negative n counts from the end of the list.
SliceTo(seq, n) ==
    LET stop == IF n >= 0 THEN Min(n, Len(seq))
                ELSE IF Len(seq) + n > 0 THEN Len(seq) + n ELSE 0
    IN SubSeq(seq, 1, stop)

\* The parsed events of a level, in bundle order.
EventsOfLevel(items, level) ==
    SelectSeq(items, LAMBDA e : e.text = "json" /\ e.level = level)

\* level_counts: parsed events count under their level, rejected JSON under
\* UNPARSED, other text is not counted.
LevelOf(e) == IF e.text = "json" THEN e.level
              ELSE IF e.text = "broken json" THEN "UNPARSED" ELSE ""

level_counts(items) ==
    LET seen == {LevelOf(items[i]) : i \in 1..Len(items)} \ {""}
    IN [l \in seen |-> Cardinality({i \in 1..Len(items) : LevelOf(items[i]) = l})]

\* DataPreprocessor.summarize_logs; top_scenarios and top_event_types, which
\* no sample depends on, are left out of the summary.
summarize_logs(logs_bundle, max_samples) ==
    IF ~Truthy(logs_bundle) \/ logs_bundle.type # "list"
    THEN [total_events |-> 0, summary |-> "No log events found", samples |-> <<>>]
    ELSE LET items == logs_bundle.items
             error_events == EventsOfLevel(items, "ERROR")
             warning_events == EventsOfLevel(items, "WARNING")
             first == SliceTo(error_events, ErrorSampleCap)
             remaining_slots == max_samples - Len(first)
             sampled_events == first \o SliceTo(warning_events, remaining_slots)
         IN [total_events |-> Len(items),
             level_distribution |-> level_counts(items),
             critical_samples |-> sampled_events]

\* ------------------------------------------------------------------- state

VARIABLES
    env_alert,                 \* the environment's ALERT_SEVERITY_THRESHOLD, if set
    thresholds,                \* MetricAnalysisAgent.thresholds
    alert_severity_threshold,  \* IncidentOrchestrator.alert_severity_threshold
    config,                    \* the other configuration of the orchestrator
    current_incident_id,       \* IncidentOrchestrator.current_incident_id
    max_cycles, count,         \* run_loop: its argument and its counter
    num_incidents, iteration,  \* generate_multiple_incidents.main: N and i
    runs_returned,             \* how many of its run_loop calls returned
    pc,                        \* the statement the program is at
    caller,                    \* who called the code at pc: "run_once" or "test"
    logger,                    \* the IncidentLogger of the running call
    metrics, metrics_result,   \* run_once locals
    sev, should_escalate,
    logs, logs_result,
    rca_log_summary,           \* the log_summary argument given to RCAAgent.analyze
    rca_result,
    stage,                     \* the stage call waiting for invoke_model, or answered
    error,                     \* the exception that left the running call
    payload,                   \* what run_once returned last
    files,                     \* the files under incident_logs_dir, by path
    writes,                    \* writes of the running cycle, by kind of file
    uuids,                     \* how many fresh incident ids were generated
    incident_dir,              \* the directory of the IncidentLogger in use
    logged,                    \* the logging calls made on it, in call order
    summarized                 \* the summarize_logs call made: arguments and summary

object_vars == <<env_alert, thresholds, alert_severity_threshold, config>>
gen_vars == <<num_incidents, iteration, runs_returned>>
loop_vars == <<max_cycles, count, gen_vars>>
local_vars == <<metrics, metrics_result, sev, should_escalate, logs, logs_result,
                rca_log_summary, rca_result, stage>>
store_vars == <<payload, files, writes>>
trail_vars == <<incident_dir, logged>>

vars == <<env_alert, thresholds, alert_severity_threshold, config, current_incident_id, max_cycles,
          count, num_incidents, iteration, runs_returned, pc, caller, logger, metrics, metrics_result, sev, should_escalate,
          logs, logs_result, rca_log_summary, rca_result, stage, error, payload,
          files, writes, uuids, incident_dir, logged, summarized>>

\* ------------------------------------------------------------- input sets

Severities == {"ok", "warning", "critical"}

\* Values of ALERT_SEVERITY_THRESHOLD: the three severities and another string.
ThresholdStrings == Severities \cup {"high"}

\* Severity strings handed to _meets_threshold.
SeverityStrings == Severities \cup {"unknown"}

OptBounds == {Null} \cup {Some(b) : b \in 1..MaxVal}

\* A threshold entry {"warn_<kind>": w, "crit_<kind>": c}; a missing bound is
\* a missing key.
Entry(kind, w, c) ==
    LET wk == IF kind = "sum" THEN "warn_sum" ELSE "warn_avg"
        ck == IF kind = "sum" THEN "crit_sum" ELSE "crit_avg"
        keys == (IF w = Null THEN {} ELSE {wk}) \cup (IF c = Null THEN {} ELSE {ck})
    IN [k \in keys |-> IF k = wk THEN Val(w) ELSE Val(c)]

Entries ==
    {Entry(kind, w, c) : kind \in {"sum", "avg"}, w \in OptBounds, c \in OptBounds}
    \cup {Entry("sum", Some(1), Some(5))}

\* thresholds.json: every metric carries the same entry, or no metric has one.
ThresholdConfigs ==
    { [lambda_metrics |-> [errors |-> e, throttles |-> e, duration_ms |-> e],
       custom_metrics |-> [CPUUtilization |-> e, RetryCount |-> e]] : e \in Entries }
    \cup { [lambda_metrics |-> EmptyDict, custom_metrics |-> EmptyDict] }

\* Lists of one or two datapoints; a datapoint holds the statistic under `key`
\* or lacks it.
Datapoints(key) == {EmptyDict} \cup {[k \in {key} |-> v] : v \in 0..MaxVal}

DatapointLists(key) ==
    {<<a>> : a \in Datapoints(key)} \cup {<<a, b>> : a, b \in Datapoints(key)}

\* The metrics a direct call of analyze is given: at most two metrics have
\* datapoints, the others are missing.
MetricSlots == {<<"lambda_metrics", "errors", "Sum">>,
                <<"lambda_metrics", "throttles", "Sum">>,
                <<"lambda_metrics", "duration", "Average">>,
                <<"custom_metrics", "CPUUtilization", "average">>,
                <<"custom_metrics", "RetryCount", "average">>}

SlotDict(group, chosen) ==
    [n \in {sl[2] : sl \in {c \in DOMAIN chosen : c[1] = group}} |->
        chosen[CHOOSE c \in DOMAIN chosen : c[1] = group /\ c[2] = n]]

MetricsOf(chosen) ==
    [lambda_metrics |-> SlotDict("lambda_metrics", chosen),
     custom_metrics |-> SlotDict("custom_metrics", chosen)]

\* The metrics whose get_metric_statistics call raises in a fetch: none, one,
\* or two of them.
FailingMetrics == {{}, {"RetryCount"}, {"CPUUtilization", "ErrorRate"}}

\* What CloudWatch answers get_metric_statistics with.
CloudWatchDatapoints ==
    {<<>>} \cup {<<[Average |-> v, Maximum |-> v]>> : v \in 0..MaxVal}

\* Log events: a structured event, an unparsed one, one with other keys only.
LogEvents == {[level |-> 7, message |-> 40], [raw |-> 4000], [requestId |-> 12]}

RECURSIVE SeqsUpTo(_, _)
SeqsUpTo(S, n) ==
    IF n = 0 THEN {<<>>}
    ELSE LET shorter == SeqsUpTo(S, n - 1)
         IN shorter \cup {Append(q, x) : q \in {r \in shorter : Len(r) = n - 1}, x \in S}

\* Lists of one event more than max_events: one event, then max_events
\* times another.
LongLogLists ==
    {[i \in 1..(max_events + 1) |-> IF i = 1 THEN a ELSE b] : a, b \in LogEvents}

LogLists == SeqsUpTo(LogEvents, MaxLogs) \cup LongLogLists

\* Bundles handed to summarize_logs: every list of at most MaxEvents events,
\* and lists with more ERROR events than the ERROR cap.
EventKinds == {"ERROR", "WARNING", "INFO", "broken json", "text"}

EventOf(kind, n) ==
    IF kind = "broken json" THEN BrokenEvent(n)
    ELSE IF kind = "text" THEN TextEvent(n)
    ELSE JsonEvent(kind, n)

LongBundles ==
    { [i \in 1..(e + w) |-> IF i <= w THEN JsonEvent("WARNING", i) ELSE JsonEvent("ERROR", i)] :
        e \in {ErrorSampleCap - 1, ErrorSampleCap + 1}, w \in {0, 2, DefaultMaxSamples} }

Bundles ==
    {[i \in 1..Len(kinds) |-> EventOf(kinds[i], i)] : kinds \in SeqsUpTo(EventKinds, MaxEvents)}
    \cup LongBundles

SampleSizes == 0..MaxSamples \cup {ErrorSampleCap, DefaultMaxSamples}

\* Metric results handed to a direct call of RCAAgent.analyze.
TestIncidentId == <<"given", 0>>

\* The n-th incident id uuid4 generates.
Uuid(n) == <<"uuid", n>>

TestMetricsResults ==
    { [incident_id |-> TestIncidentId, overall_severity |-> s,
       violations |-> <<>>, thinking_log |-> <<"start", "end">>] : s \in Severities }

\* -------------------------------------------------------------------- Init

\* The value ALERT_SEVERITY_THRESHOLD defaults to.
DefaultThreshold == "warning"

\* IncidentOrchestrator.__init__, lines 50-52, called without the argument:
\* alert_severity_threshold or os.getenv("ALERT_SEVERITY_THRESHOLD", "warning")
ResolveThreshold(arg, env) ==
    IF arg # Null /\ Val(arg) # "" THEN Val(arg)
    ELSE IF env # Null THEN Val(env)
    ELSE DefaultThreshold

\* The configuration __init__ takes from its defaults.
DefaultConfig ==
    [namespace |-> "Custom/EcommerceOrderPipeline",
     log_group |-> "/aws/lambda/cloudwatch-log-generator",
     window_minutes |-> 30,
     poll_interval_seconds |-> 30,
     incident_logs_dir |-> "incident_logs"]

Init ==
    /\ thresholds \in ThresholdConfigs
    /\ config = DefaultConfig
    /\ env_alert \in {Null} \cup {Some(t) : t \in ThresholdStrings}
    /\ alert_severity_threshold = ResolveThreshold(Null, env_alert)
    /\ error = Null
    /\ current_incident_id = Null
    /\ max_cycles = Null
    /\ count = 0
    /\ num_incidents = Null
    /\ iteration = 0
    /\ runs_returned = 0
    /\ pc = "idle"
    /\ caller = "test"
    /\ logger = Null
    /\ metrics = Null
    /\ metrics_result = Null
    /\ sev = Null
    /\ should_escalate = Null
    /\ logs = Null
    /\ logs_result = Null
    /\ rca_log_summary = Null
    /\ rca_result = Null
    /\ stage = Null
    /\ payload = Null
    /\ files = EmptyDict
    /\ writes = [trace |-> 0, summary |-> 0]
    /\ uuids = 0
    /\ incident_dir = Null
    /\ logged = <<>>
    /\ summarized = Null

\* The locals of the running call after a step.
SetLocals(m, mr, s, esc, l, lr, rls, rr, st) ==
    /\ metrics' = m
    /\ metrics_result' = mr
    /\ sev' = s
    /\ should_escalate' = esc
    /\ logs' = l
    /\ logs_result' = lr
    /\ rca_log_summary' = rls
    /\ rca_result' = rr
    /\ stage' = st

\* The locals of a call that has not run yet.
FreshLocals == SetLocals(Null, Null, Null, Null, Null, Null, Null, Null, Null)

\* ------------------------------------------------- direct calls of the agents

\* MetricAnalysisAgent.analyze called on given metrics with a logger of its
\* own; the call returns to the test script.
CallAnalyze ==
    /\ pc = "idle"
    /\ env_alert = Null
    /\ \E P \in SUBSET MetricSlots :
         /\ Cardinality(P) <= 2
         /\ \E chosen \in [P -> UNION {DatapointLists(sl[3]) : sl \in MetricSlots}] :
              /\ \A sl \in P : chosen[sl] \in DatapointLists(sl[3])
              /\ LET m == MetricsOf(chosen)
                     r == analyze(thresholds, m, NewLogger(TestIncidentId))
                 IN /\ SetLocals(Some(m), Some(r.result), Null, Null, Null, Null,
                                 Null, Null, Null)
                    /\ logger' = Some(r.logger)
    /\ pc' = "test_done"
    /\ caller' = "test"
    /\ UNCHANGED <<object_vars, summarized, current_incident_id, loop_vars, store_vars, error, uuids, trail_vars>>

\* IncidentOrchestrator._meets_threshold called on a severity string.
CallMeetsThreshold ==
    /\ pc = "idle"
    /\ \E s \in SeverityStrings :
         SetLocals(Null, Null, Some(s),
                   Some(_meets_threshold(alert_severity_threshold, s)),
                   Null, Null, Null, Null, Null)
    /\ logger' = Null
    /\ pc' = "test_done"
    /\ caller' = "test"
    /\ UNCHANGED <<object_vars, summarized, current_incident_id, loop_vars, store_vars, error, uuids, trail_vars>>

\* LogAnalysisAgent.analyze called on a list of log events, or on what
\* get_recent_logs returns, with a logger of its own.
CallLogAnalyze ==
    /\ pc = "idle"
    /\ env_alert = Null
    /\ \E x \in LogLists, shape \in {"list", "tool answer", "tool error"} :
         LET l == IF shape = "list" THEN PyList(x)
                  ELSE get_recent_logs(x, shape = "tool error")
         IN SetLocals(Null, Null, Null, Null, Some(l), Null, Null, Null, Null)
    /\ logger' = Some(NewLogger(TestIncidentId))
    /\ pc' = "log_stage"
    /\ caller' = "test"
    /\ UNCHANGED <<object_vars, summarized, current_incident_id, loop_vars, store_vars, error, uuids, trail_vars>>

\* DataPreprocessor.summarize_logs called on a list of events, or on the dict
\* get_recent_logs answers with.
CallSummarizeLogs ==
    /\ pc = "idle"
    /\ env_alert = Null
    /\ thresholds.lambda_metrics = EmptyDict
    /\ \E events \in Bundles, max_samples \in SampleSizes, shape \in {"list", "tool answer"} :
         LET logs_bundle == IF shape = "list" THEN PyList(events)
                            ELSE get_recent_logs(events, FALSE)
         IN summarized' = Some([logs_bundle |-> logs_bundle,
                                max_samples |-> max_samples,
                                summary |-> summarize_logs(logs_bundle, max_samples)])
    /\ pc' = "test_done"
    /\ caller' = "test"
    /\ UNCHANGED <<object_vars, current_incident_id, loop_vars, logger, local_vars,
                   store_vars, error, uuids, trail_vars>>

\* RCAAgent.analyze called on a metrics result and a log summary.
CallRcaAnalyze ==
    /\ pc = "idle"
    /\ env_alert = Null
    /\ \E mr \in TestMetricsResults, summary \in {NoLogsMsg, "log summary text"} :
         SetLocals(Null, Some(mr), Null, Null, Null, Null, Some(summary), Null, Null)
    /\ logger' = Some(NewLogger(TestIncidentId))
    /\ pc' = "rca_stage"
    /\ caller' = "test"
    /\ UNCHANGED <<object_vars, summarized, current_incident_id, loop_vars, store_vars, error, uuids, trail_vars>>

\* ---------------------------------------------------------------- run_loop

\* main: orchestrator.run_loop(max_cycles=...) starts; count = 0.
Main ==
    /\ pc = "idle"
    /\ \E mc \in {Null} \cup {Some(n) : n \in 0..MaxCycles} : max_cycles' = mc
    /\ count' = 0
    /\ FreshLocals
    /\ logger' = Null
    /\ pc' = "run_loop"
    /\ caller' = "run_once"
    /\ UNCHANGED <<gen_vars, object_vars, summarized, current_incident_id, store_vars, error, uuids, trail_vars>>

\* Variant: every cycle gets a logger with a fresh id.
RunOnceStart_fresh_id ==
    /\ pc = "run_loop"
    /\ count < MaxCycles
    /\ logger' = Some(add_entry(NewLogger(Uuid(uuids + 1)), "Orchestrator", "start"))
    /\ uuids' = uuids + 1
    /\ FreshLocals
    /\ writes' = [trace |-> 0, summary |-> 0]
    /\ pc' = "fetch_metrics"
    /\ UNCHANGED <<object_vars, summarized, current_incident_id, loop_vars, caller, payload, files,
                   error, trail_vars>>

\* run_once, lines 88-97: a logger for the cycle (a fresh id when no id is
\* given) and the orchestrator's "start" entry.
RunOnceStart ==
    /\ pc = "run_loop"
    /\ count < MaxCycles
    /\ LET fresh == current_incident_id = Null
           id == IF fresh THEN Uuid(uuids + 1) ELSE Val(current_incident_id)
       IN /\ logger' = Some(add_entry(NewLogger(id), "Orchestrator", "start"))
          /\ uuids' = IF fresh THEN uuids + 1 ELSE uuids
    /\ FreshLocals
    /\ writes' = [trace |-> 0, summary |-> 0]
    /\ pc' = "fetch_metrics"
    /\ UNCHANGED <<object_vars, summarized, current_incident_id, loop_vars, caller, payload, files,
                   error, trail_vars>>

\* run_once, line 100: the metrics tool answers.
FetchMetrics ==
    /\ pc = "fetch_metrics"
    /\ \E dps \in CloudWatchDatapoints, failing \in FailingMetrics :
         metrics' = Some(get_recent_metrics(dps, failing))
    /\ pc' = "analyze"
    /\ UNCHANGED <<object_vars, summarized, current_incident_id, loop_vars, caller, logger,
                   metrics_result, sev, should_escalate, logs, logs_result,
                   rca_log_summary, rca_result, stage, store_vars, error, uuids, trail_vars>>

\* MetricAnalysisAgent.analyze as run_once calls it (lines 102-105).
Analyze ==
    /\ pc = "analyze"
    /\ LET r == analyze(thresholds, Val(metrics), Val(logger))
       IN /\ metrics_result' = Some(r.result)
          /\ logger' = Some(r.logger)
    /\ pc' = "evaluated"
    /\ UNCHANGED <<object_vars, summarized, current_incident_id, loop_vars, caller, metrics, sev,
                   should_escalate, logs, logs_result, rca_log_summary, rca_result,
                   stage, store_vars, error, uuids, trail_vars>>

\* run_once, lines 107-120 and 144-149: the incident id is kept, the severity
\* is logged, the gate decides; without escalation the cycle notes it.
\* Variant: the logs are polled whatever the gate says.
Gate_always_escalates ==
    /\ pc = "evaluated"
    /\ LET mr == Val(metrics_result)
           s == Get(mr, "overall_severity", "ok")
           esc == _meets_threshold(alert_severity_threshold, s)
           l1 == add_entry(Val(logger), "Orchestrator", "metrics_evaluated")
       IN /\ current_incident_id' = Some(mr.incident_id)
          /\ sev' = Some(s)
          /\ should_escalate' = Some(esc)
          /\ logger' = Some(l1)
          /\ pc' = "fetch_logs"
    /\ UNCHANGED <<object_vars, summarized, loop_vars, caller, metrics, metrics_result, logs,
                   logs_result, rca_log_summary, rca_result, stage, store_vars, error, uuids, trail_vars>>

\* Variant: an escalation raises the configured threshold to critical.
Gate_raises_threshold ==
    /\ pc = "evaluated"
    /\ LET mr == Val(metrics_result)
           s == Get(mr, "overall_severity", "ok")
           esc == _meets_threshold(alert_severity_threshold, s)
           l1 == add_entry(Val(logger), "Orchestrator", "metrics_evaluated")
       IN /\ current_incident_id' = Some(mr.incident_id)
          /\ sev' = Some(s)
          /\ should_escalate' = Some(esc)
          /\ logger' = Some(IF esc THEN l1
                            ELSE add_entry(l1, "Orchestrator", "no_escalation"))
          /\ alert_severity_threshold' = IF esc THEN "critical"
                                         ELSE alert_severity_threshold
          /\ pc' = IF esc THEN "fetch_logs" ELSE "end"
    /\ UNCHANGED <<env_alert, thresholds, config, summarized, loop_vars, caller, metrics,
                   metrics_result, logs, logs_result, rca_log_summary, rca_result,
                   stage, store_vars, error, uuids, trail_vars>>

Gate ==
    /\ pc = "evaluated"
    /\ LET mr == Val(metrics_result)
           s == Get(mr, "overall_severity", "ok")
           esc == _meets_threshold(alert_severity_threshold, s)
           l1 == add_entry(Val(logger), "Orchestrator", "metrics_evaluated")
       IN /\ current_incident_id' = Some(mr.incident_id)
          /\ sev' = Some(s)
          /\ should_escalate' = Some(esc)
          /\ logger' = Some(IF esc THEN l1
                            ELSE add_entry(l1, "Orchestrator", "no_escalation"))
          /\ pc' = IF esc THEN "fetch_logs" ELSE "end"
    /\ UNCHANGED <<object_vars, summarized, loop_vars, caller, metrics, metrics_result, logs,
                   logs_result, rca_log_summary, rca_result, stage, store_vars, error, uuids, trail_vars>>

\* run_once, line 124: the logs tool answers.
FetchLogs ==
    /\ pc = "fetch_logs"
    /\ \E events \in LogLists, fails \in BOOLEAN :
         logs' = Some(get_recent_logs(events, fails))
    /\ pc' = "log_stage"
    /\ UNCHANGED <<object_vars, summarized, current_incident_id, loop_vars, caller, logger,
                   metrics, metrics_result, sev, should_escalate, logs_result,
                   rca_log_summary, rca_result, stage, store_vars, error, uuids, trail_vars>>

\* LogAnalysisAgent.analyze up to invoke_model (run_once, lines 126-129, or a
\* direct call).  The call returns early, raises, or waits for the model.
LogStageBegin ==
    /\ pc = "log_stage"
    /\ LET r == LogBegin(Val(logs), Val(logger))
       IN /\ logger' = Some(r.logger)
          /\ IF r.status = "calling"
             THEN /\ stage' = Some(r)
                  /\ pc' = "log_llm"
                  /\ UNCHANGED <<logs_result, rca_log_summary, error>>
             ELSE IF r.status = "raised"
             THEN /\ pc' = "raised"
                  /\ error' = Some(r.error)
                  /\ UNCHANGED <<stage, logs_result, rca_log_summary>>
             ELSE /\ logs_result' = r.result
                  /\ rca_log_summary' = IF caller = "run_once"
                                        THEN Some(Val(r.result).summary) ELSE Null
                  /\ pc' = IF caller = "run_once" THEN "rca_stage" ELSE "test_done"
                  /\ UNCHANGED <<stage, error>>
    /\ UNCHANGED <<object_vars, summarized, current_incident_id, loop_vars, caller, metrics,
                   metrics_result, sev, should_escalate, logs, rca_result,
                   store_vars, uuids, trail_vars>>

\* invoke_model answers the log stage or raises; the rest of
\* LogAnalysisAgent.analyze.  run_once then calls the RCA stage with
\* log_summary=logs_result["summary"] (lines 132-136).
LogStageLLM ==
    /\ pc = "log_llm"
    /\ \E outcome \in LogOutcomes :
         LET r == LogEnd(Val(stage), outcome)
         IN /\ logger' = Some(r.logger)
            /\ stage' = Some([status |-> "answered", agent |-> log_agent_name,
                              request |-> Val(stage).request, outcome |-> outcome])
            /\ IF r.status = "raised"
               THEN /\ pc' = "raised"
                    /\ error' = Some(r.error)
                    /\ UNCHANGED <<logs_result, rca_log_summary>>
               ELSE /\ logs_result' = r.result
                    /\ rca_log_summary' = IF caller = "run_once"
                                          THEN Some(Val(r.result).summary) ELSE Null
                    /\ pc' = IF caller = "run_once" THEN "rca_stage" ELSE "test_done"
                    /\ UNCHANGED error
    /\ UNCHANGED <<object_vars, summarized, current_incident_id, loop_vars, caller, metrics,
                   metrics_result, sev, should_escalate, logs, rca_result,
                   store_vars, uuids, trail_vars>>

\* RCAAgent.analyze up to invoke_model.
RcaStageBegin ==
    /\ pc = "rca_stage"
    /\ LET r == RcaBegin(Val(metrics_result), Val(rca_log_summary), Val(logger))
       IN /\ logger' = Some(r.logger)
          /\ stage' = Some(r)
    /\ pc' = "rca_llm"
    /\ UNCHANGED <<object_vars, summarized, current_incident_id, loop_vars, caller, metrics,
                   metrics_result, sev, should_escalate, logs, logs_result,
                   rca_log_summary, rca_result, store_vars, error, uuids, trail_vars>>

\* invoke_model answers the RCA stage or raises; the rest of RCAAgent.analyze
\* and, in run_once, the "rca_complete" entry (lines 138-143).
RcaStageLLM ==
    /\ pc = "rca_llm"
    /\ \E outcome \in RcaOutcomes :
         LET r == RcaEnd(Val(stage), Val(metrics_result), outcome)
         IN /\ stage' = Some([status |-> "answered", agent |-> rca_agent_name,
                              request |-> Val(stage).request, outcome |-> outcome])
            /\ IF r.status = "raised"
               THEN /\ pc' = "raised"
                    /\ error' = Some(r.error)
                    /\ logger' = Some(r.logger)
                    /\ UNCHANGED rca_result
               ELSE /\ rca_result' = r.result
                    /\ logger' = Some(IF caller = "run_once"
                                      THEN add_entry(r.logger, "Orchestrator",
                                                     "rca_complete")
                                      ELSE r.logger)
                    /\ pc' = IF caller = "run_once" THEN "end" ELSE "test_done"
                    /\ UNCHANGED error
    /\ UNCHANGED <<object_vars, summarized, current_incident_id, loop_vars, caller, metrics,
                   metrics_result, sev, should_escalate, logs, logs_result,
                   rca_log_summary, store_vars, uuids, trail_vars>>

\* run_once, lines 151-156: the orchestrator's "end" entry.
EndEntry ==
    /\ pc = "end"
    /\ logger' = Some(add_entry(Val(logger), "Orchestrator", "end"))
    /\ pc' = "save"
    /\ UNCHANGED <<object_vars, summarized, current_incident_id, loop_vars, caller, local_vars,
                   store_vars, error, uuids, trail_vars>>

\* The path of a file of an incident under incident_logs_dir.
TracePath(id) == <<id, "trace">>
SummaryPath(id) == <<id, "summary">>

\* logger.to_dict()
to_dict(l) == [incident_id |-> l.incident_id, entries |-> l.entries]

\* logger.save_to_file(path): the file at path holds the trace.
save_to_file(fs, l, path) == Put(fs, path, to_dict(l))

\* Variant: the cycle goes on without writing the trace.
SaveTraceSkipped ==
    /\ pc = "save"
    /\ pc' = "write_summary"
    /\ UNCHANGED <<object_vars, summarized, current_incident_id, loop_vars, caller, logger,
                   local_vars, store_vars, error, uuids, trail_vars>>

\* run_once, lines 158-162: the shared thinking log is persisted.
SaveTrace ==
    /\ pc = "save"
    /\ files' = save_to_file(files, Val(logger), TracePath(Val(logger).incident_id))
    /\ writes' = [writes EXCEPT !.trace = @ + 1]
    /\ pc' = "write_summary"
    /\ UNCHANGED <<object_vars, summarized, current_incident_id, loop_vars, caller, logger,
                   local_vars, payload, error, uuids, trail_vars>>

\* run_once, lines 164-180: the payload is built, written and returned.
WriteSummary ==
    /\ pc = "write_summary"
    /\ LET l == Val(logger)
           incident_payload ==
               [incident_id |-> l.incident_id,
                metrics |-> Val(metrics_result),
                logs |-> logs_result,
                rca |-> rca_result,
                thinking_log |-> to_dict(l).entries,
                incident_log_path |-> TracePath(l.incident_id)]
       IN /\ files' = Put(files, SummaryPath(l.incident_id), incident_payload)
          /\ payload' = Some(incident_payload)
    /\ writes' = [writes EXCEPT !.summary = @ + 1]
    /\ pc' = "returned"
    /\ UNCHANGED <<object_vars, summarized, current_incident_id, loop_vars, caller, logger,
                   local_vars, error, uuids, trail_vars>>

\* run_loop, lines 191-198: the cycle is counted and the limit checked.
LoopStep ==
    /\ pc = "returned"
    /\ count' = count + 1
    /\ pc' = IF max_cycles # Null /\ count + 1 >= Val(max_cycles)
             THEN "stopped" ELSE "sleep"
    /\ UNCHANGED <<gen_vars, object_vars, summarized, current_incident_id, max_cycles, caller, logger,
                   local_vars, store_vars, error, uuids, trail_vars>>

\* run_loop, line 200: time.sleep(poll_interval_seconds), then the next cycle.
Sleep ==
    /\ pc = "sleep"
    /\ pc' = "run_loop"
    /\ UNCHANGED <<object_vars, summarized, current_incident_id, loop_vars, caller, logger,
                   local_vars, store_vars, error, uuids, trail_vars>>

\* ------------------------------------- calls on an IncidentLogger of src

\* Values handed to the logging calls: an analysis that is plain text, one
\* that holds a datetime, one that holds a set.
AnalysisValues ==
    {PyStr("analysis text"), PyDateTime("2025-01-01T00:00:00"), PySet}

\* Raw logs (a list) or raw metrics (a dict), or the other container where
\* the one is expected, holding two items.
RawValues ==
    {[container |-> c, size |-> 2, item |-> v] : c \in {"list", "dict"},
                                                 v \in AnalysisValues}

\* The results finalize_and_persist is given: run_once leaves logs_result
\* and rca_result None when it does not escalate.
LogResults == {Null, Some([summary |-> PyStr("log summary text")])}
RcaResults ==
    {Null, Some(EmptyDict), Some([root_cause |-> PyStr("cause")]),
     Some([root_cause |-> PyStr("cause"), overall_severity |-> "critical"])}

\* The exception that leaves a call on the logger (TypeError of the encoder,
\* AttributeError of None.get).
LoggerError == "logger call error"

\* A caller makes an IncidentLogger: __init__ runs.
NewIncidentLogger ==
    /\ pc = "idle"
    /\ env_alert = Null
    /\ thresholds.lambda_metrics = EmptyDict
    /\ incident_dir' = Some(NewIncidentDir(Uuid(uuids + 1)))
    /\ uuids' = uuids + 1
    /\ logged' = <<>>
    /\ FreshLocals
    /\ logger' = Null
    /\ pc' = "session"
    /\ caller' = "session"
    /\ UNCHANGED <<object_vars, summarized, current_incident_id, loop_vars, store_vars, error>>

\* What a call on the logger leaves: the directory, the call in the history
\* (with the entry it was to log), and where the caller is.
AfterCall(r, entry) ==
    /\ incident_dir' = Some(r.dir)
    /\ logged' = Append(logged, [entry |-> entry, raised |-> r.raised])
    /\ error' = IF r.raised THEN Some(LoggerError) ELSE error
    /\ UNCHANGED <<object_vars, summarized, current_incident_id, loop_vars, caller, logger,
                   local_vars, store_vars, uuids>>

LogRawLogs ==
    /\ pc = "session"
    /\ Len(logged) < MaxCalls
    /\ \E raw \in RawValues :
         LET r == log_raw_logs(Val(incident_dir), raw)
         IN /\ AfterCall(r, [type |-> "raw_logs", body |-> PyInt(CountIf(raw, "list"))])
            /\ pc' = IF r.raised THEN "session_raised" ELSE "session"

LogRawMetrics ==
    /\ pc = "session"
    /\ Len(logged) < MaxCalls
    /\ \E raw \in RawValues :
         LET r == log_raw_metrics(Val(incident_dir), raw)
         IN /\ AfterCall(r, [type |-> "raw_metrics", body |-> PyInt(CountIf(raw, "dict"))])
            /\ pc' = IF r.raised THEN "session_raised" ELSE "session"

LogLogsAnalysis ==
    /\ pc = "session"
    /\ Len(logged) < MaxCalls
    /\ \E analysis \in AnalysisValues :
         LET r == log_logs_analysis(Val(incident_dir), analysis)
         IN /\ AfterCall(r, [type |-> "logs_analysis", body |-> analysis])
            /\ pc' = IF r.raised THEN "session_raised" ELSE "session"

LogMetricsAnalysis ==
    /\ pc = "session"
    /\ Len(logged) < MaxCalls
    /\ \E analysis \in AnalysisValues :
         LET r == log_metrics_analysis(Val(incident_dir), analysis)
         IN /\ AfterCall(r, [type |-> "metrics_analysis", body |-> analysis])
            /\ pc' = IF r.raised THEN "session_raised" ELSE "session"

LogRca ==
    /\ pc = "session"
    /\ Len(logged) < MaxCalls
    /\ \E rca_data \in AnalysisValues :
         LET r == log_rca(Val(incident_dir), rca_data)
         IN /\ AfterCall(r, [type |-> "root_cause_analysis", body |-> rca_data])
            /\ pc' = IF r.raised THEN "session_raised" ELSE "session"

\* finalize_and_persist is called with the results of the analysis.
FinalizeAndPersist ==
    /\ pc = "session"
    /\ \E mr \in TestMetricsResults, lr \in LogResults, rr \in RcaResults :
         LET r == finalize_and_persist(Val(incident_dir), mr, lr, rr)
             entry == SummaryEntry(IF rr = Null THEN EmptyDict ELSE Val(rr))
         IN /\ incident_dir' = Some(r.dir)
            /\ logged' = Append(logged, [entry |-> entry, raised |-> r.raised])
            /\ error' = IF r.raised THEN Some(LoggerError) ELSE error
            /\ SetLocals(Null, Some(mr), Null, Null, Null, lr, Null, rr, Null)
            /\ pc' = IF r.raised THEN "session_raised" ELSE "session_done"
    /\ UNCHANGED <<object_vars, summarized, current_incident_id, loop_vars, caller, logger,
                   store_vars, uuids>>

\* ------------------------------------------ generate_multiple_incidents.py

\* main: the number of incidents is read (the wait time plays no part), and
\* the for loop is entered.
GenerateMain ==
    /\ pc = "idle"
    /\ env_alert \in {Null, Some("ok")}
    /\ thresholds.lambda_metrics = EmptyDict
    /\ \E n \in 0..MaxIncidents : num_incidents' = Some(n)
    /\ iteration' = 0
    /\ runs_returned' = 0
    /\ pc' = "generate_loop"
    /\ caller' = "generate"
    /\ UNCHANGED <<object_vars, summarized, current_incident_id, max_cycles, count, logger,
                   local_vars, store_vars, error, uuids, trail_vars>>

\* for i in range(1, num_incidents + 1): a fresh IncidentOrchestrator is
\* made and its run_loop() is called without max_cycles; after the last
\* iteration the summary is printed and main returns.
GenerateIteration ==
    /\ pc = "generate_loop"
    /\ caller = "generate"
    /\ IF iteration < Val(num_incidents)
       THEN /\ iteration' = iteration + 1
            /\ current_incident_id' = Null
            /\ max_cycles' = Null
            /\ count' = 0
            /\ logger' = Null
            /\ FreshLocals
            /\ pc' = "run_loop"
            /\ caller' = "run_once"
       ELSE /\ pc' = "generate_done"
            /\ UNCHANGED <<iteration, current_incident_id, max_cycles, count, logger,
                           local_vars, caller>>
    /\ UNCHANGED <<object_vars, summarized, num_incidents, runs_returned, store_vars, error,
                   uuids, trail_vars>>

\* The run_loop call of an iteration is over: it returned, or an exception
\* left it and the except branch of the iteration printed it.
GenerateRunEnd ==
    /\ caller = "run_once"
    /\ num_incidents # Null
    /\ pc \in {"stopped", "raised"}
    /\ runs_returned' = IF pc = "stopped" THEN runs_returned + 1 ELSE runs_returned
    /\ pc' = "generate_loop"
    /\ caller' = "generate"
    /\ UNCHANGED <<object_vars, summarized, current_incident_id, max_cycles, count, num_incidents,
                   iteration, logger, local_vars, store_vars, error, uuids, trail_vars>>

\* ------------------------------------------------- interruption of the loop

\* The exception a SIGINT raises in the main thread, at whatever statement
\* is running; main catches it around run_loop only.
KeyboardInterrupt == "KeyboardInterrupt"

\* Where run_once is while a cycle runs, and where run_loop is.
CyclePcs == {"fetch_metrics", "analyze", "evaluated", "fetch_logs", "log_stage",
             "log_llm", "rca_stage", "rca_llm", "end", "save", "write_summary"}

LoopPcs == CyclePcs \cup {"run_loop", "returned", "sleep"}

\* The operator interrupts the process: KeyboardInterrupt leaves run_once
\* (no handler there, and the tools catch Exception only) and run_loop, and
\* main prints that the loop was stopped.
Interrupt ==
    /\ caller = "run_once"
    /\ pc \in LoopPcs
    /\ pc' = "interrupted"
    /\ error' = Some(KeyboardInterrupt)
    /\ UNCHANGED <<object_vars, summarized, current_incident_id, loop_vars, caller, logger,
                   local_vars, store_vars, uuids, trail_vars>>

Next ==
    \/ GenerateMain
    \/ GenerateIteration
    \/ GenerateRunEnd
    \/ Interrupt
    \/ NewIncidentLogger
    \/ LogRawLogs
    \/ LogRawMetrics
    \/ LogLogsAnalysis
    \/ LogMetricsAnalysis
    \/ LogRca
    \/ FinalizeAndPersist
    \/ CallAnalyze
    \/ CallMeetsThreshold
    \/ CallLogAnalyze
    \/ CallRcaAnalyze
    \/ CallSummarizeLogs
    \/ Main
    \/ RunOnceStart
    \/ FetchMetrics
    \/ Analyze
    \/ Gate
    \/ FetchLogs
    \/ LogStageBegin
    \/ LogStageLLM
    \/ RcaStageBegin
    \/ RcaStageLLM
    \/ EndEntry
    \/ SaveTrace
    \/ WriteSummary
    \/ LoopStep
    \/ Sleep

Spec == Init /\ [][Next]_vars

\* ------------------------------------------- properties of the evaluation

\* A call of MetricAnalysisAgent.analyze has returned.
Evaluated == metrics # Null /\ metrics_result # Null

\* The metrics analyze looks at: the group and the key of the datapoints in
\* the input, the name the thresholds and the violations carry, the
\* statistic read from a datapoint and the bounds compared with.
CheckedMetrics ==
    { [group |-> "lambda_metrics", input |-> "errors", name |-> "errors",
       key |-> "Sum", warn |-> "warn_sum", crit |-> "crit_sum"],
      [group |-> "lambda_metrics", input |-> "throttles", name |-> "throttles",
       key |-> "Sum", warn |-> "warn_sum", crit |-> "crit_sum"],
      [group |-> "lambda_metrics", input |-> "duration", name |-> "duration_ms",
       key |-> "Average", warn |-> "warn_avg", crit |-> "crit_avg"],
      [group |-> "custom_metrics", input |-> "CPUUtilization", name |-> "CPUUtilization",
       key |-> "average", warn |-> "warn_avg", crit |-> "crit_avg"],
      [group |-> "custom_metrics", input |-> "RetryCount", name |-> "RetryCount",
       key |-> "average", warn |-> "warn_avg", crit |-> "crit_avg"] }

\* The aggregated value v of a metric in the evaluated input, when the metric
\* has one: the sum of its datapoints, or the mean of the datapoints that
\* carry the statistic.
AggValue(mt) ==
    LET dps == Get(Get(Val(metrics), mt.group, EmptyDict), mt.input, <<>>)
    IN IF dps = <<>> THEN Null
       ELSE IF mt.key = "Sum" THEN Some(Whole(SumOfSums(dps)))
       ELSE IF Averages(dps, mt.key) = <<>> THEN Null
       ELSE Some(Mean(Averages(dps, mt.key)))

\* The threshold entry of a metric ({} when none is configured).
EntryOf(mt) == Get(Get(thresholds, mt.group, EmptyDict), mt.name, EmptyDict)

NoEntry(mt) == ~Has(Get(thresholds, mt.group, EmptyDict), mt.name)

\* The positions of the violations emitted for a metric.
ViolationsOf(mt) ==
    LET vs == Val(metrics_result).violations
    IN {i \in DOMAIN vs : vs[i].source = mt.group /\ vs[i].metric = mt.name}

\* Exactly one violation is emitted for the metric, with this severity.
OneViolation(mt, severity) ==
    /\ Cardinality(ViolationsOf(mt)) = 1
    /\ \A i \in ViolationsOf(mt) : Val(metrics_result).violations[i].severity = severity

\* C1: for every checked metric whose entry has a crit bound and whose
\* aggregated value v is at least that bound, the evaluator emits exactly one
\* violation for the metric, of severity critical, and no warning violation,
\* whatever the warn bound is.
C1_CriticalSubsumesWarning ==
    Evaluated =>
        \A mt \in CheckedMetrics :
            (/\ AggValue(mt) # Null
             /\ Has(EntryOf(mt), mt.crit)
             /\ Geq(Val(AggValue(mt)), EntryOf(mt)[mt.crit]))
            => OneViolation(mt, "critical")

\* A value at or above both bounds of its entry was evaluated as critical.
C1_Witness ==
    /\ Evaluated
    /\ \E mt \in CheckedMetrics :
         /\ AggValue(mt) # Null
         /\ Has(EntryOf(mt), mt.crit) /\ Has(EntryOf(mt), mt.warn)
         /\ Geq(Val(AggValue(mt)), EntryOf(mt)[mt.crit])
         /\ Geq(Val(AggValue(mt)), EntryOf(mt)[mt.warn])
         /\ OneViolation(mt, "critical")

\* C2, as stated: a metric whose aggregated value is below the warn bound
\* (with any crit bound or none), or that has no threshold entry, gets no
\* violation.
C2_BelowWarnNoViolation ==
    Evaluated =>
        \A mt \in CheckedMetrics :
            (\/ /\ AggValue(mt) # Null
                /\ Has(EntryOf(mt), mt.warn)
                /\ Lt(Val(AggValue(mt)), EntryOf(mt)[mt.warn])
             \/ NoEntry(mt))
            => ViolationsOf(mt) = {}

\* C2, amended: a metric whose aggregated value is below the warn bound and
\* below the crit bound when one is configured, or that has no threshold
\* entry, gets no violation.
C2_BelowBothNoViolation ==
    Evaluated =>
        \A mt \in CheckedMetrics :
            (\/ /\ AggValue(mt) # Null
                /\ Has(EntryOf(mt), mt.warn)
                /\ Lt(Val(AggValue(mt)), EntryOf(mt)[mt.warn])
                /\ Has(EntryOf(mt), mt.crit) => Lt(Val(AggValue(mt)), EntryOf(mt)[mt.crit])
             \/ NoEntry(mt))
            => ViolationsOf(mt) = {}

\* A value below both configured bounds was evaluated and left no violation.
C2_Witness ==
    /\ Evaluated
    /\ \E mt \in CheckedMetrics :
         /\ AggValue(mt) # Null
         /\ Has(EntryOf(mt), mt.warn) /\ Has(EntryOf(mt), mt.crit)
         /\ Lt(Val(AggValue(mt)), EntryOf(mt)[mt.warn])
         /\ Lt(Val(AggValue(mt)), EntryOf(mt)[mt.crit])
         /\ ViolationsOf(mt) = {}

\* The one violation of the metric has this severity, value and threshold.
OneViolationWith(mt, severity, value, threshold) ==
    /\ OneViolation(mt, severity)
    /\ \A i \in ViolationsOf(mt) :
         /\ Val(metrics_result).violations[i].value = value
         /\ Val(metrics_result).violations[i].threshold = threshold

\* C3: a value v with warn <= v < crit, or v >= warn where no crit bound is
\* configured, gets exactly one violation, of severity warning, carrying v as
\* its value and the warn bound as its threshold; the bounds are inclusive:
\* v = warn is a warning, v = crit is critical.
C3_WarningBand ==
    Evaluated =>
        \A mt \in CheckedMetrics :
            AggValue(mt) # Null =>
                LET v == Val(AggValue(mt))
                    e == EntryOf(mt)
                IN /\ (/\ Has(e, mt.warn)
                       /\ Geq(v, e[mt.warn])
                       /\ Has(e, mt.crit) => Lt(v, e[mt.crit]))
                      => OneViolationWith(mt, "warning", v, e[mt.warn])
                   /\ (Has(e, mt.crit) /\ v = Whole(e[mt.crit]))
                      => OneViolationWith(mt, "critical", v, e[mt.crit])

\* A value equal to its warn bound and below its crit bound was evaluated as
\* a warning.
C3_Witness ==
    /\ Evaluated
    /\ \E mt \in CheckedMetrics :
         /\ AggValue(mt) # Null
         /\ Has(EntryOf(mt), mt.warn) /\ Has(EntryOf(mt), mt.crit)
         /\ Val(AggValue(mt)) = Whole(EntryOf(mt)[mt.warn])
         /\ Lt(Val(AggValue(mt)), EntryOf(mt)[mt.crit])
         /\ OneViolationWith(mt, "warning", Val(AggValue(mt)), EntryOf(mt)[mt.warn])

\* The rank of a severity in ok < warning < critical.
SeverityRank(s) == IF s = "critical" THEN 2 ELSE IF s = "warning" THEN 1 ELSE 0

\* The greatest severity among the violations, ok when there are none.
MaxSeverity(violations) ==
    CHOOSE s \in Severities :
        /\ \A i \in DOMAIN violations : SeverityRank(violations[i].severity) <= SeverityRank(s)
        /\ \/ s = "ok"
           \/ \E i \in DOMAIN violations : violations[i].severity = s

\* C4: the overall severity is critical iff some violation is critical, else
\* warning iff some violation is a warning, else ok: the maximum severity of
\* the violations; it is the same for every order of the list, and one of the
\* three severities for every list.
C4_AggregateIsMaximum ==
    Evaluated =>
        LET vs == Val(metrics_result).violations
            overall == Val(metrics_result).overall_severity
        IN /\ overall \in Severities
           /\ overall = MaxSeverity(vs)
           /\ \A p \in Permutations(DOMAIN vs) :
                _aggregate_severity([i \in DOMAIN vs |-> vs[p[i]]]) = overall

\* A warning followed by a critical violation was aggregated to critical.
C4_Witness ==
    /\ Evaluated
    /\ LET vs == Val(metrics_result).violations
       IN /\ Len(vs) = 2
          /\ vs[1].severity = "warning"
          /\ vs[2].severity = "critical"
    /\ Val(metrics_result).overall_severity = "critical"

\* -------------------------------------------------- properties of the gate

\* C5: for a severity s and a threshold t among ok, warning, critical, the
\* gate is true iff s is at least t in ok < warning < critical; the threshold
\* is warning when none is configured.
C5_GateIsOrderComparison ==
    /\ (/\ sev # Null /\ should_escalate # Null
        /\ Val(sev) \in Severities
        /\ alert_severity_threshold \in Severities)
       => (Val(should_escalate)
             <=> SeverityRank(Val(sev)) >= SeverityRank(alert_severity_threshold))
    /\ env_alert = Null => alert_severity_threshold = "warning"

\* The gate was asked about a warning under the threshold critical and said no.
C5_Witness ==
    /\ sev = Some("warning")
    /\ alert_severity_threshold = "critical"
    /\ should_escalate = Some(FALSE)

\* ------------------------------------------------- properties of a cycle

\* The trace of the running call holds an entry of this agent: the agent's
\* stage was invoked.
TraceHas(agent) ==
    /\ logger # Null
    /\ \E i \in DOMAIN Val(logger).entries : Val(logger).entries[i].agent = agent

\* A cycle of run_once is over: it returned its payload or an exception left it.
CycleOver == caller = "run_once" /\ pc \in {"returned", "raised"}

\* C6: in every cycle of run_once the log source is polled and the log and
\* RCA stages are invoked iff the aggregate severity meets the threshold, and
\* the returned payload has logs and rca both non-null when the gate is true
\* and both null when it is false.
C6_GateDecidesPath ==
    /\ CycleOver =>
          (should_escalate = Some(TRUE)
             <=> (logs # Null /\ TraceHas(log_agent_name) /\ TraceHas(rca_agent_name)))
    /\ (caller = "run_once" /\ pc = "returned") =>
          IF should_escalate = Some(TRUE)
          THEN Val(payload).logs # Null /\ Val(payload).rca # Null
          ELSE Val(payload).logs = Null /\ Val(payload).rca = Null

\* C7: in every escalating cycle the log stage has returned before the RCA
\* stage starts, the RCA stage is started, and the log input it is handed is
\* the summary the log stage of the cycle returned.
C7_LogSummaryFeedsRca ==
    /\ (caller = "run_once" /\ TraceHas(rca_agent_name)) =>
          /\ logs_result # Null
          /\ rca_log_summary = Some(Val(logs_result).summary)
    /\ (CycleOver /\ should_escalate = Some(TRUE)) =>
          /\ logs_result # Null
          /\ TraceHas(rca_agent_name)

\* The last entry of the trace is the orchestrator's "end" entry.
EndAppended ==
    /\ logger # Null
    /\ Val(logger).entries # <<>>
    /\ Val(logger).entries[Len(Val(logger).entries)]
         = [agent |-> "Orchestrator", stage |-> "end"]

C9_SynthesisFailureDegrades ==
    error = Some(InvokeError) =>
        /\ pc # "raised"
        /\ logs_result # Null \/ rca_result # Null

\* The metrics fetch of the running cycle failed.
MetricsFetchFailed ==
    /\ caller = "run_once"
    /\ metrics # Null
    /\ Val(metrics).status = "error"

\* C10: when the metrics fetch of a cycle fails the cycle aborts: no severity
\* is computed, the gate is not evaluated, and neither the trace nor the
\* result payload is written for the cycle.
C10_MetricsFailureAborts ==
    MetricsFetchFailed =>
        /\ metrics_result = Null
        /\ sev = Null /\ should_escalate = Null
        /\ writes = [trace |-> 0, summary |-> 0]
        /\ pc \notin {"evaluated", "fetch_logs", "log_stage", "end", "save",
                      "write_summary", "returned"}

\* ------------------------------------------- properties of error handling

\* The log fetch of the running cycle failed: the logs tool answered with its
\* error dict.
LogsFetchFailed ==
    /\ caller = "run_once"
    /\ logs # Null
    /\ Val(logs).type = "dict"
    /\ Get(Val(logs).items, "status", "ok") = "error"

\* C11: when the log fetch of an escalating cycle fails, no exception leaves
\* the cycle: the escalation goes on with an empty log set, and a cycle that
\* is over has a log stage result, an RCA result and both files written.
C11_LogsFailureContinues ==
    LogsFetchFailed =>
        /\ pc # "raised"
        /\ CycleOver =>
              /\ logs_result # Null /\ rca_result # Null
              /\ writes = [trace |-> 1, summary |-> 1]

\* ----------------------------------------- properties of the stored files

\* A use of an IncidentLogger is over: finalize_and_persist returned, or an
\* exception left one of its calls.
SessionOver == caller = "session" /\ pc \in {"session_done", "session_raised"}

\* A file of the incident directory is absent or completely written.
WholeOrAbsent(file) == file # Null => Val(file).complete

\* The incident directory holds a complete artifact: a trail with entries
\* and a completely written results file, no file cut short.
CompleteArtifact ==
    /\ incident_dir # Null
    /\ Val(incident_dir).log # <<>>
    /\ Val(incident_dir).results # Null
    /\ WholeOrAbsent(Val(incident_dir).results)
    /\ WholeOrAbsent(Val(incident_dir).raw_logs)
    /\ WholeOrAbsent(Val(incident_dir).raw_metrics)

\* The files run_once stored for the incident of the running cycle.
CycleFiles ==
    {TracePath(Val(logger).incident_id), SummaryPath(Val(logger).incident_id)}
        \cap DOMAIN files

\* C12: when a cycle is over, storage holds no artifact of the incident at
\* all (no directory, no trace, no result) or a complete one (trace and
\* result completely written); never a trace without its result or a file
\* cut short.
C12_AllOrNothing ==
    /\ (caller = "run_once" /\ pc \in {"returned", "raised", "sleep", "stopped"}) =>
          Cardinality(CycleFiles) \in {0, 2}
    /\ SessionOver => (incident_dir = Null \/ CompleteArtifact)

\* ---------------------------------------------------------------------------
\* C13: the fallback of the RCA stage.

\* The RCA stage got an answer from invoke_model.
RcaAnswered ==
    /\ stage # Null
    /\ Val(stage).status = "answered"
    /\ Val(stage).agent = rca_agent_name
    /\ ~Val(stage).outcome.raises

AnsweredText == RcaText(Val(stage).outcome)

\* The response text is a JSON object with the key incident_summary.
Conforming(text) ==
    /\ text.body = "json"
    /\ text.value.type = "dict"
    /\ "incident_summary" \in DOMAIN text.value.items

EmptyLists(rca) ==
    /\ Get(rca, "likely_root_causes", Null) = <<>>
    /\ Get(rca, "impacted_components", Null) = <<>>
    /\ Get(rca, "recommended_actions", Null) = <<>>

\* C13 as stated: a response text that is no JSON object with an
\* incident_summary makes the stage return a fallback object whose
\* incident_summary is the raw text (a placeholder when the text is empty)
\* and whose three lists are empty; no parse exception leaves the stage.
C13_FallbackKeepsRawText ==
    RcaAnswered =>
        /\ error # Some(ParseError)
        /\ ~Conforming(AnsweredText) =>
              /\ pc # "raised"
              /\ rca_result # Null
              /\ Val(rca_result).incident_summary =
                     (IF AnsweredText.raw = "" THEN "RCA summary not available."
                      ELSE AnsweredText.raw)
              /\ EmptyLists(Val(rca_result))

\* C13, amended: the incident_summary of the fallback object is the text
\* without its leading and trailing whitespace, and the placeholder when
\* nothing is left of it; the lists are empty and no parse exception leaves
\* the stage.
C13_FallbackKeepsStrippedText ==
    RcaAnswered =>
        /\ error # Some(ParseError)
        /\ ~Conforming(AnsweredText) =>
              /\ pc # "raised"
              /\ rca_result # Null
              /\ Val(rca_result).incident_summary =
                     (IF AnsweredText.stripped = "" THEN "RCA summary not available."
                      ELSE AnsweredText.stripped)
              /\ EmptyLists(Val(rca_result))

C13_Witness ==
    /\ RcaAnswered
    /\ AnsweredText.body = "plain"
    /\ AnsweredText.raw # AnsweredText.stripped
    /\ rca_result # Null
    /\ Val(rca_result).incident_summary = "plain text"

\* ---------------------------------------------------------------------------
\* C14: the number of cycles of run_loop.

\* run_loop runs: count is the number of cycles of run_once that returned.
InRunLoop == caller = "run_once"

\* C14: run_loop(max_cycles = N) runs exactly N cycles and then returns, for
\* every N >= 0; it sleeps only between two cycles, never after the last
\* one; without max_cycles it does not stop on its own.
C14_ExactlyNCycles ==
    InRunLoop =>
        /\ max_cycles # Null => count <= Val(max_cycles)
        /\ pc = "stopped" => (max_cycles # Null /\ count = Val(max_cycles))
        /\ pc = "sleep" => (max_cycles = Null \/ count < Val(max_cycles))

\* ---------------------------------------------------------------------------
\* C15: the RetryCount scenario.

RetryCountDatapoints ==
    Get(Get(Val(metrics), "custom_metrics", EmptyDict), "RetryCount", <<>>)

\* analyze was given RetryCount alone, with datapoints whose values sum to 2,
\* under the threshold entry {warn_sum: 1, crit_sum: 5}.
RetryCountScenario ==
    /\ Evaluated
    /\ Val(metrics).lambda_metrics = EmptyDict
    /\ DOMAIN Val(metrics).custom_metrics = {"RetryCount"}
    /\ SumSeq(Averages(RetryCountDatapoints, "average")) = 2
    /\ Has(Get(thresholds, "custom_metrics", EmptyDict), "RetryCount")
    /\ thresholds.custom_metrics.RetryCount = Entry("sum", Some(1), Some(5))

\* C15: in the RetryCount scenario the evaluation emits exactly one
\* violation, a warning with dimension sum, value 2 and threshold 1, and the
\* aggregate severity is warning.
C15_RetryCountWarning ==
    RetryCountScenario =>
        LET vs == Val(metrics_result).violations
        IN /\ Len(vs) = 1
           /\ vs[1].metric = "RetryCount"
           /\ vs[1].severity = "warning"
           /\ vs[1].dimension = "sum"
           /\ vs[1].value = Whole(2)
           /\ vs[1].threshold = 1
           /\ Val(metrics_result).overall_severity = "warning"

\* ---------------------------------------------------------------------------
\* C16: the incident id and the thinking_log of a stage result.

\* The stages of the entries an agent appended to the shared trace, in order.
StageSteps(agent) ==
    LET own == SelectSeq(Val(logger).entries, LAMBDA e : e.agent = agent)
    IN [i \in DOMAIN own |-> own[i].stage]

\* The result carries the id of the trace and one local step per entry the
\* agent appended to the trace, in the same order.
Mirrors(result, agent) ==
    /\ result.incident_id = Val(logger).incident_id
    /\ result.thinking_log = StageSteps(agent)

\* C16: every result a stage returned (metrics, log, RCA) carries the id of
\* the shared trace it was given, also when the JSON of the RCA model holds
\* incident_id or thinking_log itself, and a thinking_log with exactly one
\* local step for each entry the stage appended to the trace, in that order.
C16_ResultMirrorsTrace ==
    logger # Null =>
        /\ Evaluated => Mirrors(Val(metrics_result), agent_name)
        /\ logs_result # Null => Mirrors(Val(logs_result), log_agent_name)
        /\ rca_result # Null => Mirrors(Val(rca_result), rca_agent_name)

\* The RCA model answered with a JSON object that holds incident_id and
\* thinking_log, and the stage returned its result.
C16_Witness ==
    /\ RcaAnswered
    /\ AnsweredText.body = "json"
    /\ AnsweredText.value.type = "dict"
    /\ {"incident_id", "thinking_log"} \subseteq DOMAIN AnsweredText.value.items
    /\ rca_result # Null
    /\ Val(rca_result).incident_id = TestIncidentId
    /\ Val(rca_result).thinking_log = <<"start", "call_llm", "end">>

\* ---------------------------------------------------------------------------
\* C17: the order of the start, call_llm and end entries of a stage.

\* The positions of a stage name among the entries of an agent.
StepsAt(agent, name) ==
    {i \in DOMAIN StageSteps(agent) : StageSteps(agent)[i] = name}

\* The entries of a stage that invoked the service: start is the first,
\* call_llm follows it, end (if there) is the last and follows call_llm.
StartCallEnd(agent) ==
    StepsAt(agent, "call_llm") # {} =>
        /\ StepsAt(agent, "start") = {1}
        /\ Cardinality(StepsAt(agent, "call_llm")) = 1
        /\ \A e \in StepsAt(agent, "end"), c \in StepsAt(agent, "call_llm") :
               c < e /\ e = Len(StageSteps(agent))

\* invoke_model is being called by the stage of the agent.
Calling(agent) ==
    /\ stage # Null
    /\ Val(stage).status = "calling"
    /\ pc = (IF agent = log_agent_name THEN "log_llm" ELSE "rca_llm")

\* The call of invoke_model by the stage of the agent did not return.
CallFailed(agent) ==
    /\ stage # Null
    /\ Val(stage).status = "answered"
    /\ Val(stage).agent = agent
    /\ Val(stage).outcome.raises

\* C17: in a run of the log stage or the RCA stage that invokes the service,
\* the start entry is appended before the call and the end entry only after
\* the response was received and parsed: start precedes call_llm, call_llm
\* precedes end, and a stage whose call did not return has no end entry.
C17_StartCallEnd ==
    logger # Null =>
        \A agent \in {log_agent_name, rca_agent_name} :
            /\ StartCallEnd(agent)
            /\ Calling(agent) =>
                  /\ StepsAt(agent, "start") = {1}
                  /\ StepsAt(agent, "call_llm") = {Len(StageSteps(agent))}
                  /\ StepsAt(agent, "end") = {}
            /\ CallFailed(agent) => StepsAt(agent, "end") = {}
            /\ (StepsAt(agent, "call_llm") # {} /\ StepsAt(agent, "end") # {}) =>
                  (IF agent = log_agent_name THEN logs_result ELSE rca_result) # Null

\* A log stage whose call returned, and its four entries in order.
C17_Witness ==
    /\ logger # Null
    /\ stage # Null
    /\ Val(stage).status = "answered"
    /\ Val(stage).agent = log_agent_name
    /\ ~Val(stage).outcome.raises
    /\ StageSteps(log_agent_name) = <<"start", "trim_logs", "call_llm", "end">>

\* ---------------------------------------------------------------------------
\* C18: the reduction of the payload in the log stage.

\* The log stage built a prompt: it is calling invoke_model or has called it.
LogPromptBuilt ==
    /\ logger # Null
    /\ stage # Null
    /\ \/ Val(stage).status = "calling" /\ pc = "log_llm"
       \/ Val(stage).status = "answered" /\ Val(stage).agent = log_agent_name

LogRequest == Val(Val(stage).request)

\* C18: for a log list of any size the prompt sent to the service is built
\* from at most the last 10 events and has at most 3500 characters, and
\* whenever the prompt was cut to meet that limit a prompt_trim entry is in
\* the trace before the call_llm entry.
C18_PayloadReduced ==
    LogPromptBuilt =>
        /\ LogRequest.events <= max_events
        /\ LogRequest.events = Min(Len(Val(logs).items), max_events)
        /\ LogRequest.chars <= MAX_PROMPT_CHARS
        /\ LogRequest.trimmed =>
              \E t \in StepsAt(log_agent_name, "prompt_trim") :
                  \A c \in StepsAt(log_agent_name, "call_llm") : t < c
        /\ ~LogRequest.trimmed => StepsAt(log_agent_name, "prompt_trim") = {}

\* A list of eleven events whose last ten still exceed the limit: the prompt
\* was cut and the call is pending.
C18_Witness ==
    /\ LogPromptBuilt
    /\ pc = "log_llm"
    /\ Len(Val(logs).items) = max_events + 1
    /\ LogRequest.events = max_events
    /\ LogRequest.trimmed
    /\ StageSteps(log_agent_name) = <<"start", "trim_logs", "prompt_trim", "call_llm">>

\* ---------------------------------------------------------------------------
\* C19: the trail file of an IncidentLogger read back.

\* The lines of the trail file, read back with json.loads.
TrailRead == [i \in DOMAIN Val(incident_dir).log |-> Loads(Val(incident_dir).log[i])]

\* The entry a logging call hands to the logger, with the timestamp and the
\* incident id the logger adds.
Stamped(entry, body) ==
    [type |-> entry.type, body |-> body, timestamp |-> _timestamp,
     incident_id |-> Val(incident_dir).incident_id]

HasDatapoints(mt) ==
    Get(Get(Val(metrics), mt.group, EmptyDict), mt.input, <<>>) # <<>>

\* The metrics with datapoints and without a threshold entry.
Unconfigured == {mt \in CheckedMetrics : HasDatapoints(mt) /\ NoEntry(mt)}

\* The notes of the evaluator that say no threshold is configured.
SkipNotes == StepsAt(agent_name, "skip_metric")

\* C20: every metric with datapoints and without a threshold entry, lambda
\* metric or custom metric, is skipped without error and gets its own
\* no-threshold note in the trace.
C20_UnconfiguredNoted ==
    (Evaluated /\ logger # Null) =>
        /\ \A mt \in Unconfigured : ViolationsOf(mt) = {}
        /\ Cardinality(SkipNotes) >= Cardinality(Unconfigured)

\* ---------------------------------------------------------------------------
\* C21: an interruption of the monitoring loop.

\* The loop was stopped by an interruption.
Interrupted == caller = "run_once" /\ pc = "interrupted"

\* C21: an interruption stops the loop only between cycles: the cycle that
\* was in flight when it arrived has completed its persistence (both files
\* written) when the loop stops, and no cycle is cancelled part-way.
C21_InterruptBetweenCycles ==
    (Interrupted /\ logger # Null) => writes = [trace |-> 1, summary |-> 1]

\* ---------------------------------------------------------------------------
\* C22: the order of the phases of a cycle.

\* The positions run_once and run_loop may go to from a position, when no
\* exception and no interruption ends them.
PhaseOrder(from) ==
    CASE from = "run_loop" -> {"fetch_metrics"}
      [] from = "fetch_metrics" -> {"analyze"}
      [] from = "analyze" -> {"evaluated"}
      [] from = "evaluated" -> {"fetch_logs", "end"}
      [] from = "fetch_logs" -> {"log_stage"}
      [] from = "log_stage" -> {"log_llm", "rca_stage"}
      [] from = "log_llm" -> {"rca_stage"}
      [] from = "rca_stage" -> {"rca_llm"}
      [] from = "rca_llm" -> {"end"}
      [] from = "end" -> {"save"}
      [] from = "save" -> {"write_summary"}
      [] from = "write_summary" -> {"returned"}
      [] from = "returned" -> {"sleep", "stopped"}
      [] from = "sleep" -> {"run_loop"}
      [] OTHER -> {}

\* A step of the loop that is neither an exception nor an interruption.
CycleStep ==
    /\ caller = "run_once"
    /\ caller' = "run_once"
    /\ pc' # pc
    /\ pc' \notin {"raised", "interrupted"}

\* What a step of a cycle keeps to.
InOrder ==
    /\ pc' \in PhaseOrder(pc)
    /\ pc' = "fetch_logs" => should_escalate' = Some(TRUE)
    /\ (pc = "evaluated" /\ pc' = "end") => should_escalate' = Some(FALSE)
    /\ pc' = "save" => (metrics_result # Null /\ sev # Null /\ should_escalate # Null)
    /\ pc' = "fetch_metrics" => (logger = Null \/ writes = [trace |-> 1, summary |-> 1])
    /\ pc' = "fetch_metrics" => writes' = [trace |-> 0, summary |-> 0]

\* C22: every cycle passes through fetch metrics, evaluation, the gate, then
\* (only when escalating) fetch logs, log stage and RCA stage, then
\* persistence, in this order and never persisting before the evaluation;
\* cycle k+1 starts only after cycle k has written both its files, so one
\* cycle at most is active.
C22_PhasesInOrder == [][CycleStep => InOrder]_vars

\* A second cycle is fetching its metrics after the first one has written
\* its files.
C22_Witness ==
    /\ caller = "run_once"
    /\ count = 1
    /\ pc = "analyze"
    /\ files # EmptyDict
    /\ writes = [trace |-> 0, summary |-> 0]

\* ---------------------------------------------------------------------------
\* C23: failures of the metrics source per metric.

\* The metric whose fetch failed, as the answer of the tool reports it.
FailedMetric == Val(metrics).error[2]

\* C23: when the fetch of one metric fails, the metrics source does not
\* raise and still answers with the datapoint lists of every other metric,
\* with an error marker for the failed metric only.
C23_FailuresIsolated ==
    MetricsFetchFailed =>
        /\ "metrics" \in DOMAIN Val(metrics)
        /\ \A m \in ToolMetricNames \ {FailedMetric} :
               m \in DOMAIN Val(metrics).metrics

\* ---------------------------------------------------------------------------
\* C24: the severity of the persisted result.

\* The summary file run_once stored for the incident of the cycle.
StoredSummary == files[SummaryPath(Val(logger).incident_id)]

\* C24: the severity in the persisted incident result is the aggregate
\* severity the evaluation of the cycle computed: the RCA stage leaves the
\* metrics result as it was handed over, and an RCA result with its own
\* overall_severity, or a fallback RCA, does not change the severity that is
\* persisted, neither in the summary file of run_once nor in results.json.
C24_PersistedSeverityIsEvaluated ==
    /\ (caller = "run_once" /\ pc = "returned") =>
          /\ Val(payload).metrics = Val(metrics_result)
          /\ Val(payload).metrics.overall_severity = Val(sev)
          /\ StoredSummary.metrics.overall_severity = Val(sev)
    /\ RcaAnswered =>
          Val(metrics_result).overall_severity
              = Val(Val(stage).request).metrics_severity
    /\ (caller = "session" /\ pc = "session_done") =>
          Val(Val(incident_dir).results).severity
              = Val(metrics_result).overall_severity

\* results.json was written for an evaluation of severity ok and an RCA
\* result that says critical.
C24_Witness ==
    /\ caller = "session"
    /\ pc = "session_done"
    /\ Val(metrics_result).overall_severity = "ok"
    /\ "overall_severity" \in DOMAIN Val(rca_result)
    /\ Val(rca_result).overall_severity = "critical"
    /\ Val(Val(incident_dir).results).severity = "ok"

\* ---------------------------------------------------------------------------
\* C25: what a cycle writes on the orchestrator.

\* A step of run_loop or of a cycle of run_once.
LoopStepTaken == caller' = "run_once"

\* C25: across the cycles of one orchestrator the threshold configuration
\* loaded at construction and the configuration of the orchestrator
\* (namespace, log group, window, poll interval, escalation threshold,
\* output directory) are never modified; of the state of the orchestrator a
\* cycle writes current_incident_id only.
C25_ConfigurationKept ==
    [][LoopStepTaken => UNCHANGED <<thresholds, alert_severity_threshold, config>>]_vars

\* A second cycle has returned and current_incident_id was written.
C25_Witness ==
    /\ caller = "run_once"
    /\ count = 1
    /\ pc = "sleep"
    /\ current_incident_id # Null
    /\ config = DefaultConfig

\* ---------------------------------------------------------------------------
\* C26: the runs of generate_multiple_incidents.main.

\* main of generate_multiple_incidents is running or has ended.
Generating == num_incidents # Null

\* C26: asked for N incidents, main performs N separate detection runs, one
\* fresh orchestrator and one run per iteration i = 1..N; each run returns
\* before the next iteration starts (a run is over once its detection cycle
\* is done), and main ends after its summary with N runs returned.
C26_NSeparateRuns ==
    Generating =>
        /\ iteration <= Val(num_incidents)
        /\ caller = "run_once" =>
              /\ runs_returned = iteration - 1
              /\ count = 0 \/ pc = "stopped"
        /\ pc = "generate_loop" => runs_returned = iteration
        /\ pc = "generate_done" =>
              (iteration = Val(num_incidents) /\ runs_returned = Val(num_incidents))

\* --------------------------------------------- the sample of summarize_logs

\* A call of summarize_logs returned a summary with a sample.
Sampled == summarized # Null /\ Has(Val(summarized).summary, "critical_samples")

\* No WARNING event stands before an ERROR event.
ErrorsFirst(samples) ==
    \A i, j \in 1..Len(samples) :
        (i < j /\ samples[i].level = "WARNING") => samples[j].level # "ERROR"

\* C27: for every log list and every max_samples >= 0 the critical_samples of
\* the summary hold at most max_samples events, ERROR events before WARNING
\* events.
C27_SampleCapped ==
    Sampled =>
        /\ Len(Val(summarized).summary.critical_samples) <= Val(summarized).max_samples
        /\ ErrorsFirst(Val(summarized).summary.critical_samples)

\* ------------------------------------------- the incident id of an instance

\* A cycle of run_loop is running or has just ended.
InCycle == caller = "run_once" /\ logger # Null /\ pc \in LoopPcs \cup {"stopped"}

EmptyLogsHandled ==
    /\ caller = "run_once"
    /\ logs # Null
    /\ ~LogsFetchFailed
    /\ Get(Val(logs).items, "count", MaxLogs + 1) = 0
    /\ pc \notin {"log_stage", "interrupted"}

\* C29: when an escalating cycle hands the log stage an empty log list, the
\* log stage appends exactly one trace entry, does not invoke the synthesis
\* service and returns the fixed summary, and the RCA stage still runs in that
\* cycle with this summary as its log input.
C29_EmptyLogsSummarised ==
    EmptyLogsHandled =>
        /\ StageSteps(log_agent_name) = <<"start">>
        /\ logs_result # Null
        /\ rca_log_summary = Some(NoLogsMsg)
        /\ TraceHas(rca_agent_name) \/ pc = "rca_stage"

\* ------------------------------------------- the gate on unrecognised strings

\* The gate was asked about a severity string.
GateAsked == sev # Null /\ should_escalate # Null

\* C30: _meets_threshold treats a severity string outside ok, warning,
\* critical as ok and a threshold string outside that set as warning: under an
\* unrecognised threshold the gate escalates exactly for warning and critical,
\* and an unrecognised severity escalates only when the threshold is ok.
C30_UnrecognisedStrings ==
    GateAsked =>
        /\ alert_severity_threshold \notin Severities =>
              (Val(should_escalate) <=> Val(sev) \in {"warning", "critical"})
        /\ Val(sev) \notin Severities =>
              (Val(should_escalate) <=> alert_severity_threshold = "ok")
        /\ Val(should_escalate)
              <=> _meets_threshold(IF alert_severity_threshold \in Severities
                                   THEN alert_severity_threshold ELSE "warning",
                                   IF Val(sev) \in Severities THEN Val(sev) ELSE "ok")

\* The gate, configured with an unrecognised threshold, was asked about an
\* unrecognised severity and did not escalate.
C30_Witness ==
    /\ GateAsked
    /\ alert_severity_threshold \notin Severities
    /\ Val(sev) \notin Severities
    /\ should_escalate = Some(FALSE)

====
